---- MODULE Spec2Model ----
(***************************************************************************)
(* RaiderPortal: the client-side data layer.                               *)
(*                                                                         *)
(*   - the search index (src/src/services/searchIndex.js): the build state *)
(*     machine (buildIndex, _doBuild, clearIndex) and the ranked search;   *)
(*   - the MetaForge fetch service with its read-through cache             *)
(*     (metaforgeApi.js, held in src/src/diagnostics/locationDiag.js from  *)
(*     line 813 on);                                                       *)
(*   - the ARDB items list fetch (src/src/services/ardbApi.js).            *)
(*                                                                         *)
(* JavaScript runs one task at a time: an action below is one run of       *)
(* synchronous code, from a call or a promise continuation up to the next  *)
(* await.  Strings are sequences of one-character strings, so that trim,   *)
(* toLowerCase, startsWith, indexOf and includes are computed, not assumed.*)
(***************************************************************************)
EXTENDS Integers, Sequences, FiniteSets, TLC

VARIABLES
  \* searchIndex.js module state
  _index,         \* IndexEntry[]                         (line 88)
  _state,         \* 'idle' | 'loading' | 'ready' | 'error' (line 91)
  _error,         \* Error | null                         (line 94)
  _buildPromise,  \* the build promise, or Null           (line 100)
  builds,         \* the _doBuild runs started so far and the state of their promise
  settled,        \* history: the _doBuild run that completed last and what its four
                  \* fetches had settled with
  returned,       \* what the last buildIndex() call returned, or Null
  searched,       \* the last search() call and what it returned, or Null
  \* metaforgeApi.js module state and its environment
  now,            \* Date.now(), counted in steps of five minutes
  useLocalStorage, \* what the probe at module load found           (line 873)
  localStorage,   \* the persistent store, key -> entry             (rp_mf_ keys)
  memoryStore,    \* the in-process fallback map, key -> entry      (line 860)
  calls,          \* the dataset fetch calls made so far, and where each one in
                  \* flight stands
  lastCall,       \* the call that settled last and what it settled with
  \* ardbApi.js module state and its environment
  _listCache,     \* object[] | null                      (line 44)
  _listPromise,   \* Promise | null                       (line 46)
  ardbStorage,    \* localStorage[LIST_CACHE_KEY]: {data, at} or absent
  ardbPromises,   \* the promises fetchArdbItems created so far
  ardbCalls,      \* the fetchArdbItems calls made so far: what each was handed
  ardbGets,       \* history: number of GET /api/ardb/items issued
  _crossRef,      \* Map | null                          (ardbApi.js line 128)
  _crossRefPromise, \* Promise | null                    (ardbApi.js line 130)
  crossRefCalls,  \* the buildArdbCrossRef calls made so far: what each was handed
  prefetches,     \* the prefetchAll calls made so far and what each resolved with
  _detailCache,   \* Map ardbId -> detail                (ardbApi.js line 101)
  render,         \* the renderItemGroup call under way
  _loggedUncategorized, \* Set of item_type values     (listPages.js line 412)
  consoleLog,     \* history: the item_type values getBucket has logged, in order
  \* router.js and the page it drives
  hash,           \* window.location.hash
  detailActive,   \* body.detail-active: the detail view is shown
  content,        \* what #detailContent holds
  routes,         \* the handleRoute runs that called a renderer, and where each
                  \* stands
  applied         \* the pure function applied last: its input and its result

indexVars == <<_index, _state, _error, _buildPromise, builds, settled, returned, searched>>
cacheVars == <<now, useLocalStorage, localStorage, memoryStore, calls, lastCall>>
ardbVars  == <<_listCache, _listPromise, ardbStorage, ardbPromises, ardbCalls, ardbGets>>
xrefVars  == <<_crossRef, _crossRefPromise, crossRefCalls>>
bucketVars == <<_loggedUncategorized, consoleLog>>
pageVars  == <<_detailCache, render, bucketVars>>
routerVars == <<hash, detailActive, content, routes>>
restVars  == <<xrefVars, prefetches, pageVars, routerVars, applied>>
vars      == <<indexVars, cacheVars, ardbVars, restVars>>

Null == "null"

\* A promise variable that holds null (promises are numbered from 1).
NoPromise == 0

\* The keys of TTL: the five MetaForge datasets.
DatasetKeys == {"items", "arcs", "quests", "traders", "eventsSchedule"}

\* readStore's null: no entry under the key.
NoEntry == [present |-> FALSE]

\* A list that is null, and a list of the given elements.
NullList == [null |-> TRUE]
NullMap == [null |-> TRUE]
List(elements) == [null |-> FALSE, elements |-> elements]

(***************************************************************************)
(* Strings                                                                 *)
(***************************************************************************)

\* String.prototype.toLowerCase on one character (the letters the model uses).
Lower(c) ==
  CASE c = "A" -> "a"
    [] c = "B" -> "b"
    [] c = "C" -> "c"
    [] c = "E" -> "e"
    [] c = "I" -> "i"
    [] c = "K" -> "k"
    [] c = "N" -> "n"
    [] c = "M" -> "m"
    [] c = "P" -> "p"
    [] c = "R" -> "r"
    [] c = "S" -> "s"
    [] c = "T" -> "t"
    [] c = "V" -> "v"
    [] OTHER   -> c

toLowerCase(s) == [i \in 1..Len(s) |-> Lower(s[i])]

RECURSIVE trimStart(_)
trimStart(s) == IF s # <<>> /\ Head(s) = " " THEN trimStart(Tail(s)) ELSE s

RECURSIVE trimEnd(_)
trimEnd(s) ==
  IF s # <<>> /\ s[Len(s)] = " " THEN trimEnd(SubSeq(s, 1, Len(s) - 1)) ELSE s

\* String.prototype.trim (the only white space of the model is the space).
trim(s) == trimEnd(trimStart(s))

\* s.startsWith(q, pos), pos counted from 0 as in JavaScript.
startsWith(s, q, pos) ==
  /\ pos + Len(q) <= Len(s)
  /\ \A i \in 1..Len(q) : s[pos + i] = q[i]

\* s.indexOf(ch, from): the first 0-based position >= from holding ch, or -1.
RECURSIVE indexOf(_, _, _)
indexOf(s, ch, from) ==
  IF from >= Len(s) THEN -1
  ELSE IF s[from + 1] = ch THEN from
  ELSE indexOf(s, ch, from + 1)

\* s.includes(q)
includes(s, q) == \E p \in 0..(Len(s) - Len(q)) : startsWith(s, q, p)

\* The collation order of the characters at the primary level: the space
\* first, then the letters; case is a tertiary difference.
Collation ==
  <<" ", ".", "0", "1", "2", "3", "a", "b", "c", "d", "e", "i", "k", "l", "m", "n", "o", "p",
    "r", "s", "t", "u", "v">>

CharRank(c) == CHOOSE i \in 1..Len(Collation) : Collation[i] = Lower(c)

RECURSIVE comparePrimary(_, _)
comparePrimary(a, b) ==
  IF a = <<>> /\ b = <<>> THEN 0
  ELSE IF a = <<>> THEN -1
  ELSE IF b = <<>> THEN 1
  ELSE IF CharRank(Head(a)) < CharRank(Head(b)) THEN -1
  ELSE IF CharRank(Head(a)) > CharRank(Head(b)) THEN 1
  ELSE comparePrimary(Tail(a), Tail(b))

RECURSIVE compareCase(_, _)
compareCase(a, b) ==
  IF a = <<>> \/ b = <<>> THEN 0
  ELSE IF Head(a) = Head(b) THEN compareCase(Tail(a), Tail(b))
  ELSE IF Lower(Head(a)) = Head(a) THEN -1
  ELSE 1

\* a.localeCompare(b): letters first, and between names that differ in case
\* only, the lower-case letter first.
localeCompare(a, b) ==
  IF comparePrimary(a, b) # 0 THEN comparePrimary(a, b) ELSE compareCase(a, b)

(***************************************************************************)
(* searchIndex.js: scoring and search                                      *)
(***************************************************************************)

\* The loop of anyWordStartsWith from wordStart on: every word delimited by
\* single spaces, the first included.
RECURSIVE wordLoop(_, _, _)
wordLoop(nameLower, queryLower, wordStart) ==
  IF ~(wordStart < Len(nameLower)) THEN FALSE
  ELSE LET nextSpace == indexOf(nameLower, " ", wordStart)
           wordEnd   == IF nextSpace = -1 THEN Len(nameLower) ELSE nextSpace
       IN  IF /\ (wordEnd - wordStart) >= Len(queryLower)
              /\ startsWith(nameLower, queryLower, wordStart)
           THEN TRUE
           ELSE IF nextSpace = -1 THEN FALSE
           ELSE wordLoop(nameLower, queryLower, nextSpace + 1)

anyWordStartsWith(nameLower, queryLower) == wordLoop(nameLower, queryLower, 0)

scoreMatch_WordAsPrefix(nameLower, queryLower) ==
  IF nameLower = queryLower THEN 100
  ELSE IF anyWordStartsWith(nameLower, queryLower) THEN 75
  ELSE IF includes(nameLower, queryLower) THEN 25
  ELSE 0

scoreMatch(nameLower, queryLower) ==
  IF nameLower = queryLower THEN 100
  ELSE IF startsWith(nameLower, queryLower, 0) THEN 75
  ELSE IF anyWordStartsWith(nameLower, queryLower) THEN 50
  ELSE IF includes(nameLower, queryLower) THEN 25
  ELSE 0

\* The comparator handed to scored.sort: higher score first, then the names.
compareScored(a, b) ==
  IF a.score # b.score THEN b.score - a.score
  ELSE localeCompare(a.entry.name, b.entry.name)

\* Array.prototype.sort is stable: r goes behind every element that does not
\* compare greater than it.
RECURSIVE insertScored(_, _)
insertScored(sorted, r) ==
  IF sorted = <<>> THEN <<r>>
  ELSE IF compareScored(Head(sorted), r) <= 0
       THEN <<Head(sorted)>> \o insertScored(Tail(sorted), r)
       ELSE <<r>> \o sorted

RECURSIVE sortScored(_)
sortScored(scored) ==
  IF scored = <<>> THEN <<>>
  ELSE insertScored(sortScored(SubSeq(scored, 1, Len(scored) - 1)), scored[Len(scored)])

\* seq.slice(0, limit), limit >= 0
slice0(seq, limit) == SubSeq(seq, 1, IF limit < Len(seq) THEN limit ELSE Len(seq))

\* The default of search's limit option.
DefaultLimit == 25

tooShort_OnlyEmpty(q) == Len(q) < 1

\* q.length < 2
tooShort(q) == Len(q) < 2

\* search() on a ready index, after the state guard.
searchReady(query, limit, type) ==
  LET q      == toLowerCase(trim(query))
      pool   == IF type # Null THEN SelectSeq(_index, LAMBDA e : e.type = type) ELSE _index
      all    == [i \in 1..Len(pool) |->
                   [entry |-> pool[i], score |-> scoreMatch(toLowerCase(pool[i].name), q)]]
      scored == SelectSeq(all, LAMBDA r : r.score > 0)
      sorted == sortScored(scored)
      cut    == slice0(sorted, limit)
  IN  IF tooShort(q) THEN <<>>
      ELSE [i \in 1..Len(cut) |-> cut[i].entry]

search_OnlyIdleGuard(query, limit, type) ==
  IF _state = "idle" THEN <<>> ELSE searchReady(query, limit, type)

\* search(query, {limit, type}): what it returns in the current state.
search(query, limit, type) ==
  IF _state # "ready" THEN <<>> ELSE searchReady(query, limit, type)

(***************************************************************************)
(* searchIndex.js: normalizers and the build                               *)
(***************************************************************************)

\* The number of _doBuild runs a behaviour may start.
MaxBuilds == 2

\* The four fetches of _doBuild, in the order of its Promise.allSettled array.
BuildDatasets == <<"items", "arcs", "quests", "traders">>

\* What the fetches deliver in the model.  A list dataset is a list of
\* records with an id and a name; the traders dataset is a keyed map, held
\* as the list of its keys in Object.keys order.
ItemsData   == << [id |-> "i1", name |-> <<"A", "b">>],
                  [id |-> "i2", name |-> <<"a", "b", " ", "c">>] >>
ArcsData    == << [id |-> "a1", name |-> <<"c", "a", "b">>] >>
QuestsData  == << [id |-> "q1", name |-> <<"a", "b">>] >>
TradersData == << [key |-> <<"C", " ", "a", "b">>, inventory |-> <<>>] >>

Rejected == [status |-> "rejected"]
Fulfilled(v) == [status |-> "fulfilled", shape |-> "list", value |-> v]

\* A fulfilled value that is no list of named records (a 2xx envelope whose
\* data is an object, say): the normalizer's map() throws a TypeError on it.
Malformed == [status |-> "fulfilled", shape |-> "other", value |-> <<>>]

\* Promise.allSettled's result for one dataset fetch.
Outcomes(d) ==
  CASE d = "items"   -> {Rejected, Fulfilled(ItemsData), Malformed}
    [] d = "arcs"    -> {Rejected, Fulfilled(ArcsData)}
    [] d = "quests"  -> {Rejected, Fulfilled(QuestsData)}
    [] d = "traders" -> {Rejected, Fulfilled(TradersData)}

DatasetSet == {BuildDatasets[i] : i \in 1..Len(BuildDatasets)}

\* A fetch of _doBuild that has not settled yet.
Pending == [status |-> "pending"]

\* Every array Promise.allSettled can hand to _doBuild.
SettledResults ==
  {[items |-> i, arcs |-> a, quests |-> q, traders |-> t] :
     i \in Outcomes("items"), a \in Outcomes("arcs"),
     q \in Outcomes("quests"), t \in Outcomes("traders")}

normalizeItems(items) ==
  [i \in 1..Len(items) |-> [id |-> items[i].id, name |-> items[i].name, type |-> "Item"]]

normalizeArcs(arcs) ==
  [i \in 1..Len(arcs) |-> [id |-> arcs[i].id, name |-> arcs[i].name, type |-> "ARC"]]

normalizeQuests(quests) ==
  [i \in 1..Len(quests) |-> [id |-> quests[i].id, name |-> quests[i].name, type |-> "Quest"]]

normalizeTraders(tradersData) ==
  [i \in 1..Len(tradersData) |->
     [id |-> toLowerCase(tradersData[i].key), name |-> tradersData[i].key, type |-> "Trader"]]

normalize(d, value) ==
  CASE d = "items"   -> normalizeItems(value)
    [] d = "arcs"    -> normalizeArcs(value)
    [] d = "quests"  -> normalizeQuests(value)
    [] d = "traders" -> normalizeTraders(value)

buildThrows_OnRejection(results) ==
  \/ \E d \in DatasetSet : results[d].status = "rejected"
  \/ \E d \in DatasetSet : results[d].status = "fulfilled" /\ results[d].shape # "list"

\* Whether building the entries array throws: a normalizer is applied to a
\* fulfilled value it cannot map over.
buildThrows(results) ==
  \E d \in DatasetSet : results[d].status = "fulfilled" /\ results[d].shape # "list"

\* One spread element of the entries array: the normalized dataset when its
\* fetch fulfilled, [] when it rejected.
entriesOf(results, i) ==
  IF results[BuildDatasets[i]].status = "fulfilled"
  THEN normalize(BuildDatasets[i], results[BuildDatasets[i]].value)
  ELSE <<>>

\* const entries = [...items, ...arcs, ...quests, ...traders]
buildEntries(results) ==
  entriesOf(results, 1) \o entriesOf(results, 2) \o entriesOf(results, 3) \o entriesOf(results, 4)

PendingBuilds == {b \in 1..Len(builds) : builds[b].status = "pending"}

\* getIndexState(), without the per-type breakdown
getIndexState == [state |-> _state, size |-> Len(_index), error |-> _error]

(***************************************************************************)
(* searchIndex.js: the operations                                          *)
(***************************************************************************)

\* buildIndex({forceRefresh}), up to the await inside _doBuild: the early
\* return, the forced discard, the shared promise, or _doBuild's first two
\* assignments and the start of the four fetches.
BuildIndex(forceRefresh) ==
  IF _state = "ready" /\ ~forceRefresh
  THEN /\ returned' = [kind |-> "index"]
       /\ UNCHANGED <<_index, _state, _error, _buildPromise, builds, settled, searched>>
  ELSE LET promise == IF forceRefresh THEN NoPromise ELSE _buildPromise
           index   == IF forceRefresh THEN <<>> ELSE _index
       IN  IF promise # NoPromise
           THEN /\ returned' = [kind |-> "promise", promise |-> promise]
                /\ _index' = index
                /\ _buildPromise' = promise
                /\ UNCHANGED <<_state, _error, builds, settled, searched>>
           ELSE /\ Len(builds) < MaxBuilds
                /\ builds' = Append(builds, [status |-> "pending", forceRefresh |-> forceRefresh,
                                             fetched |-> [d \in DatasetSet |-> Pending],
                                             order |-> <<>>])
                /\ _state' = "loading"
                /\ _error' = Null
                /\ _index' = index
                /\ _buildPromise' = Len(builds) + 1
                /\ returned' = [kind |-> "promise", promise |-> Len(builds) + 1]
                /\ UNCHANGED <<settled, searched>>

\* The continuation of _doBuild after the await, when nothing throws: the
\* four results are in, the entries are installed, the promise resolves.
DoBuildResolve(b, results) ==
  /\ builds[b].status = "pending"
  /\ ~buildThrows(results)
  /\ _index' = buildEntries(results)
  /\ _state' = "ready"
  /\ builds' = [builds EXCEPT ![b].status = "resolved"]
  /\ settled' = [build |-> TRUE, results |-> results]
  /\ UNCHANGED <<_error, _buildPromise, returned, searched>>

\* The continuation of _doBuild when a normalizer throws, and the catch
\* callback buildIndex chained on it.
DoBuildReject(b, results) ==
  /\ builds[b].status = "pending"
  /\ buildThrows(results)
  /\ _state' = "error"
  /\ _error' = "TypeError"
  /\ _buildPromise' = NoPromise
  /\ builds' = [builds EXCEPT ![b].status = "rejected"]
  /\ settled' = [build |-> TRUE, results |-> results]
  /\ UNCHANGED <<_index, returned, searched>>

ClearIndex_KeepsState ==
  /\ _index' = <<>>
  /\ _error' = Null
  /\ _buildPromise' = NoPromise
  /\ UNCHANGED <<_state, builds, settled, returned, searched>>

\* clearIndex()
ClearIndex ==
  /\ _index' = <<>>
  /\ _state' = "idle"
  /\ _error' = Null
  /\ _buildPromise' = NoPromise
  /\ UNCHANGED <<builds, settled, returned, searched>>

\* A call of search(query, {limit, type}); it only reads.
Search(query, limit, type) ==
  /\ searched' = [called |-> TRUE, state |-> _state, query |-> query, limit |-> limit, type |-> type,
                  result |-> search(query, limit, type)]
  /\ UNCHANGED <<_index, _state, _error, _buildPromise, builds, settled, returned>>

\* The queries tried against the index while it is built and rebuilt.
IndexQueries == { <<" ">>, <<"A", "b", " ">> }

\* After module load: nothing built, nothing cached, nothing in flight.
InitIndex ==
  /\ hash = "#/"
  /\ detailActive = FALSE
  /\ content = [kind |-> "empty"]
  /\ routes = <<>>
  /\ _index = <<>>
  /\ _state = "idle"
  /\ _error = Null
  /\ _buildPromise = NoPromise
  /\ builds = <<>>
  /\ settled = [build |-> FALSE]
  /\ returned = [kind |-> "none"]
  /\ searched = [called |-> FALSE]
  /\ now = 0
  /\ useLocalStorage = TRUE
  /\ localStorage = [k \in DatasetKeys |-> NoEntry]
  /\ memoryStore = [k \in DatasetKeys |-> NoEntry]
  /\ calls = <<>>
  /\ lastCall = [key |-> Null, outcome |-> "none", fromCache |-> FALSE]
  /\ _listCache = NullList
  /\ _listPromise = NoPromise
  /\ ardbStorage = NoEntry
  /\ ardbPromises = <<>>
  /\ ardbCalls = <<>>
  /\ ardbGets = 0
  /\ _crossRef = NullMap
  /\ _crossRefPromise = NoPromise
  /\ crossRefCalls = <<>>
  /\ prefetches = <<>>
  /\ _detailCache = <<>>
  /\ render = [phase |-> "none"]
  /\ _loggedUncategorized = {}
  /\ consoleLog = <<>>
  /\ applied = [fn |-> "none"]

NextIndex ==
  \/ \E forceRefresh \in BOOLEAN : BuildIndex(forceRefresh) /\ UNCHANGED <<cacheVars, ardbVars, restVars>>
  \/ \E b \in 1..Len(builds), results \in SettledResults :
       DoBuildResolve(b, results) /\ UNCHANGED <<cacheVars, ardbVars, restVars>>
  \/ \E b \in 1..Len(builds), results \in SettledResults :
       DoBuildReject(b, results) /\ UNCHANGED <<cacheVars, ardbVars, restVars>>
  \/ ClearIndex /\ UNCHANGED <<cacheVars, ardbVars, restVars>>
  \/ \E query \in IndexQueries : Search(query, DefaultLimit, Null) /\ UNCHANGED <<cacheVars, ardbVars, restVars>>

\* The search index alone: builds, clears and searches in any order.
SpecIndex == InitIndex /\ [][NextIndex]_vars

(***************************************************************************)
(* _doBuild, its four fetches settling one by one                          *)
(***************************************************************************)

MaxOrderBuilds == 1

allSettledResults_FirstSettled(fetched, order) ==
  [d \in DatasetSet |-> IF d = order[1] THEN fetched[d] ELSE Rejected]

\* The array Promise.allSettled resolves with: the result of each fetch at
\* the position of its promise in the input array, whatever the order in
\* which the fetches settled.
allSettledResults(fetched, order) == [d \in DatasetSet |-> fetched[d]]

\* One of the four fetches of build b settles with result.
FetchSettles(b, d, result) ==
  /\ builds[b].status = "pending"
  /\ builds[b].fetched[d] = Pending
  /\ builds' = [builds EXCEPT ![b].fetched[d] = result,
                              ![b].order = Append(@, d)]
  /\ UNCHANGED <<_index, _state, _error, _buildPromise, settled, returned, searched>>

\* All four fetches of build b have settled: Promise.allSettled resolves
\* and _doBuild continues after its await.
AllSettled(b) == Len(builds[b].order) = Len(BuildDatasets)

DoBuildContinue(b) ==
  /\ AllSettled(b)
  /\ DoBuildResolve(b, allSettledResults(builds[b].fetched, builds[b].order))

DoBuildThrows(b) ==
  /\ AllSettled(b)
  /\ DoBuildReject(b, allSettledResults(builds[b].fetched, builds[b].order))

InitBuildOrder ==
  /\ hash = "#/"
  /\ detailActive = FALSE
  /\ content = [kind |-> "empty"]
  /\ routes = <<>>
  /\ _index = <<>>
  /\ _state = "idle"
  /\ _error = Null
  /\ _buildPromise = NoPromise
  /\ builds = <<>>
  /\ settled = [build |-> FALSE]
  /\ returned = [kind |-> "none"]
  /\ searched = [called |-> FALSE]
  /\ now = 0
  /\ useLocalStorage = TRUE
  /\ localStorage = [k \in DatasetKeys |-> NoEntry]
  /\ memoryStore = [k \in DatasetKeys |-> NoEntry]
  /\ calls = <<>>
  /\ lastCall = [key |-> Null, outcome |-> "none", fromCache |-> FALSE]
  /\ _listCache = NullList
  /\ _listPromise = NoPromise
  /\ ardbStorage = NoEntry
  /\ ardbPromises = <<>>
  /\ ardbCalls = <<>>
  /\ ardbGets = 0
  /\ _crossRef = NullMap
  /\ _crossRefPromise = NoPromise
  /\ crossRefCalls = <<>>
  /\ prefetches = <<>>
  /\ _detailCache = <<>>
  /\ render = [phase |-> "none"]
  /\ _loggedUncategorized = {}
  /\ consoleLog = <<>>
  /\ applied = [fn |-> "none"]

NextBuildOrder ==
  \/ \E forceRefresh \in BOOLEAN :
       /\ Len(builds) < MaxOrderBuilds
       /\ PendingBuilds = {}
       /\ BuildIndex(forceRefresh)
       /\ UNCHANGED <<cacheVars, ardbVars, restVars>>
  \/ \E b \in 1..Len(builds), d \in DatasetSet : \E result \in Outcomes(d) :
       FetchSettles(b, d, result) /\ UNCHANGED <<cacheVars, ardbVars, restVars>>
  \/ \E b \in 1..Len(builds) :
       DoBuildContinue(b) /\ UNCHANGED <<cacheVars, ardbVars, restVars>>
  \/ \E b \in 1..Len(builds) :
       DoBuildThrows(b) /\ UNCHANGED <<cacheVars, ardbVars, restVars>>

\* Builds one after the other, the four fetches of each settling in any
\* order.
SpecBuildOrder == InitBuildOrder /\ [][NextBuildOrder]_vars

(***************************************************************************)
(* search() as a function of the index and the query                       *)
(***************************************************************************)

\* Bounds of the search inputs.
MaxIndexLen == 2
MaxQueryLen == 3

SearchEntries ==
  { [id |-> "e1", name |-> <<"a", "b">>, type |-> "Item"],
    [id |-> "e2", name |-> <<"A", "b">>, type |-> "Quest"],
    [id |-> "e3", name |-> <<"a", "b", "b">>, type |-> "Item"],
    [id |-> "e4", name |-> <<"b", " ", "a", "b">>, type |-> "ARC"],
    [id |-> "e5", name |-> <<"b", "a", "b">>, type |-> "Item"],
    [id |-> "e6", name |-> <<"a">>, type |-> "Trader"] }

Tempest == [id |-> "tempest", type |-> "Item",
            name |-> <<"T", "e", "m", "p", "e", "s", "t">>]
TempestBlueprint == [id |-> "tempest-blueprint", type |-> "Item",
            name |-> <<"T", "e", "m", "p", "e", "s", "t", " ", "B", "l", "u", "e", "p", "r", "i", "n", "t">>]
AdvancedTempestCore == [id |-> "advanced-tempest-core", type |-> "Item",
            name |-> <<"A", "d", "v", "a", "n", "c", "e", "d", " ", "T", "e", "m", "p", "e", "s", "t", " ", "C", "o", "r", "e">>]

TempestIndexes ==
  { <<Tempest, TempestBlueprint, AdvancedTempestCore>>,
    <<AdvancedTempestCore, TempestBlueprint, Tempest>>,
    <<TempestBlueprint, AdvancedTempestCore, Tempest>> }

TempestQueries == { <<"t", "e", "m", "p", "e", "s", "t">>, <<" ", "T", "E", "M", "P", "E", "S", "T", " ">>, <<"c", "o", "r", "e">> }

\* Lists of distinct entries, as a build installs them.
SearchIndexes ==
  TempestIndexes \cup
  UNION { {ix \in [1..n -> SearchEntries] : \A i, j \in 1..n : i # j => ix[i] # ix[j]} :
          n \in 1..MaxIndexLen }

QueryChars == {"a", "b", "A", " "}

SearchQueries ==
  TempestQueries \cup UNION { [1..n -> QueryChars] : n \in 0..MaxQueryLen }

SearchLimits == {1, DefaultLimit}

SearchTypes == {Null, "Item"}

\* A ready index holding any of the lists.
InitSearch ==
  /\ hash = "#/"
  /\ detailActive = FALSE
  /\ content = [kind |-> "empty"]
  /\ routes = <<>>
  /\ _index \in SearchIndexes
  /\ _state = "ready"
  /\ _error = Null
  /\ _buildPromise = 1
  /\ builds = << [status |-> "resolved", forceRefresh |-> FALSE] >>
  /\ settled = [build |-> FALSE]
  /\ returned = [kind |-> "none"]
  /\ searched = [called |-> FALSE]
  /\ now = 0
  /\ useLocalStorage = TRUE
  /\ localStorage = [k \in DatasetKeys |-> NoEntry]
  /\ memoryStore = [k \in DatasetKeys |-> NoEntry]
  /\ calls = <<>>
  /\ lastCall = [key |-> Null, outcome |-> "none", fromCache |-> FALSE]
  /\ _listCache = NullList
  /\ _listPromise = NoPromise
  /\ ardbStorage = NoEntry
  /\ ardbPromises = <<>>
  /\ ardbCalls = <<>>
  /\ ardbGets = 0
  /\ _crossRef = NullMap
  /\ _crossRefPromise = NoPromise
  /\ crossRefCalls = <<>>
  /\ prefetches = <<>>
  /\ _detailCache = <<>>
  /\ render = [phase |-> "none"]
  /\ _loggedUncategorized = {}
  /\ consoleLog = <<>>
  /\ applied = [fn |-> "none"]

\* One call per behaviour: search only reads, so a second call adds nothing.
NextSearch ==
  \E query \in SearchQueries, limit \in SearchLimits, type \in SearchTypes :
    ~searched.called /\ Search(query, limit, type) /\ UNCHANGED <<cacheVars, ardbVars, restVars>>

\* search() applied to every query, limit and type filter on a ready index.
SpecSearch == InitSearch /\ [][NextSearch]_vars

(***************************************************************************)
(* metaforgeApi.js: the cache layer and the dataset fetches                *)
(***************************************************************************)

\* Bounds of the fetch service model.
MaxCalls == 2
MaxTime  == 4
MaxPages == 2
MaxPageLen == 2

\* The datasets fetched through fetchAllPages.
Paginated == {"items", "arcs", "quests"}

\* TTL[key], in steps of five minutes.
TTL_items          == 3
TTL_arcs           == 6
TTL_quests         == 6
TTL_traders        == 2
TTL_eventsSchedule == 1

TTL(key) ==
  CASE key = "items"          -> TTL_items
    [] key = "arcs"           -> TTL_arcs
    [] key = "quests"         -> TTL_quests
    [] key = "traders"        -> TTL_traders
    [] key = "eventsSchedule" -> TTL_eventsSchedule

\* What a request that makes fetchUrl throw met: no response at all, a
\* response with a status outside 2xx, or a 2xx response whose body is no
\* JSON.
FailedResponses ==
  { [kind |-> "none", status |-> 0],
    [kind |-> "http", status |-> 404],
    [kind |-> "http", status |-> 500],
    [kind |-> "badjson", status |-> 200] }

\* this.retryable
retryable(status) == status = 500 \/ status = 0

\* new MetaForgeError(message, status, endpoint)
MetaForgeError(status, endpoint) ==
  [name |-> "MetaForgeError", status |-> status, endpoint |-> endpoint,
   retryable |-> retryable(status)]

readStore(key) == IF useLocalStorage THEN localStorage[key] ELSE memoryStore[key]

\* getCache's staleness test
isStale(ageMs, ttl) == ageMs > ttl

getCache(key) ==
  LET entry == readStore(key)
  IN  IF ~entry.present THEN [hit |-> FALSE]
      ELSE IF isStale(now - entry.cachedAt, entry.ttl) THEN [hit |-> FALSE]
      ELSE [hit |-> TRUE, data |-> entry.data, ageMs |-> now - entry.cachedAt]

\* getCacheStatus(key).cached
getCacheStatus(key) ==
  LET entry == readStore(key)
  IN  IF ~entry.present THEN [cached |-> FALSE, ttlMs |-> TTL(key)]
      ELSE [cached |-> (now - entry.cachedAt) <= entry.ttl, ageMs |-> now - entry.cachedAt,
            ttlMs |-> entry.ttl, expiresInMs |-> entry.ttl - (now - entry.cachedAt),
            cachedAt |-> entry.cachedAt]

\* What localStorage.setItem may do when the persistent store is in use:
\* store the entry, or throw for the quota or for another reason.
SetItemOutcomes ==
  IF useLocalStorage THEN {"ok", "QuotaExceededError", "SecurityError"} ELSE {"ok"}

writeStoreThrows_OnQuota(setItem) == setItem = "QuotaExceededError"

\* The catch of writeStore rethrows nothing.
writeStoreThrows(setItem) == FALSE

\* writeStore(key, data, ttl); setItem is what localStorage.setItem does.
\* Only a quota error sends the entry to memoryStore.
WriteStore(key, data, ttl, setItem) ==
  LET entry == [present |-> TRUE, data |-> data, cachedAt |-> now, ttl |-> ttl]
  IN  IF useLocalStorage
      THEN CASE setItem = "ok" ->
                  /\ localStorage' = [localStorage EXCEPT ![key] = entry]
                  /\ UNCHANGED memoryStore
             [] setItem = "QuotaExceededError" ->
                  /\ memoryStore' = [memoryStore EXCEPT ![key] = entry]
                  /\ UNCHANGED localStorage
             [] OTHER -> UNCHANGED <<localStorage, memoryStore>>
      ELSE /\ memoryStore' = [memoryStore EXCEPT ![key] = entry]
           /\ UNCHANGED localStorage

\* A call that has settled; what it settled with is in lastCall.
Settled == [phase |-> "settled"]

\* What stands for pagination.totalPages in an envelope that has none.
NoTotalPages == 0 - 1

\* fetchItems, fetchArcs, fetchQuests, fetchTraders, fetchEventsSchedule:
\* cachedFetch up to its await, that is the cache hit or the first request.
FetchDataset(key, forceRefresh) ==
  /\ Len(calls) < MaxCalls
  /\ IF ~forceRefresh /\ getCache(key).hit
     THEN /\ calls' = Append(calls, Settled)
          /\ lastCall' = [key |-> key,
                          outcome |-> "resolved", fromCache |-> TRUE,
                          ageMs |-> getCache(key).ageMs, data |-> getCache(key).data]
     ELSE /\ calls' = Append(calls, [phase |-> "fetching", key |-> key,
                                     forceRefresh |-> forceRefresh,
                                     page |-> 1, totalPages |-> 1, data |-> <<>>,
                                     served |-> <<>>, inFlight |-> {1},
                                     declared |-> NoTotalPages])
          /\ UNCHANGED lastCall
  /\ UNCHANGED <<now, useLocalStorage, localStorage, memoryStore>>

\* The error fetchUrl throws on a failed response.
fetchUrlError(response, pathLabel) ==
  CASE response.kind = "none"    -> MetaForgeError(0, pathLabel)
    [] response.kind = "http"    -> MetaForgeError(response.status, pathLabel)
    [] response.kind = "badjson" -> MetaForgeError(response.status, pathLabel)

ResponseFails_WritesPartial(c, response) ==
  /\ calls[c].phase = "fetching"
  /\ calls' = [calls EXCEPT ![c] = Settled]
  /\ lastCall' = [key |-> calls[c].key,
                  outcome |-> "rejected", fromCache |-> FALSE,
                  response |-> response,
                  error |-> fetchUrlError(response, calls[c].key)]
  /\ WriteStore(calls[c].key, calls[c].data, TTL(calls[c].key), "ok")
  /\ UNCHANGED <<now, useLocalStorage>>

\* fetchUrl throws (no response, a non-2xx status, a body that is no JSON):
\* the fetcher and cachedFetch reject with the MetaForgeError, nothing is
\* written.
ResponseFails(c, response) ==
  /\ calls[c].phase = "fetching"
  /\ calls' = [calls EXCEPT ![c] = Settled]
  /\ lastCall' = [key |-> calls[c].key,
                  outcome |-> "rejected", fromCache |-> FALSE,
                  response |-> response,
                  error |-> fetchUrlError(response, calls[c].key)]
  /\ UNCHANGED <<now, useLocalStorage, localStorage, memoryStore>>

\* fetchUrl returns null: a 2xx response whose JSON body is null.
\* fetchAllPages reads first.pagination and raw.data, fetchEventsSchedule
\* reads raw.data: a TypeError, with which the call rejects.  fetchTraders
\* tests raw first and takes {} for its data, as for an envelope without
\* data (ResponseOk).
ResponseNull(c) ==
  /\ calls[c].phase = "fetching"
  /\ calls[c].key # "traders"
  /\ calls' = [calls EXCEPT ![c] = Settled]
  /\ lastCall' = [key |-> calls[c].key,
                  outcome |-> "rejected", fromCache |-> FALSE,
                  response |-> [kind |-> "null", status |-> 200],
                  error |-> [name |-> "TypeError"]]
  /\ UNCHANGED <<now, useLocalStorage, localStorage, memoryStore>>

\* The records upstream serves on page p to call c: full pages and short
\* ones alternate.
PageLen(p) == IF p % 2 = 1 THEN MaxPageLen ELSE MaxPageLen - 1
PageRecords(c, p) == [i \in 1..PageLen(p) |-> [call |-> c, page |-> p, i |-> i]]

\* The envelope of a page: data is read only when hasData; totalPages is
\* pagination.totalPages, NoTotalPages when the envelope has none.
Envelope(hasData, data, totalPages) ==
  [hasData |-> hasData, data |-> data, totalPages |-> totalPages]

\* first.pagination?.totalPages ?? 1
totalPagesOf(first) == IF first.totalPages = NoTotalPages THEN 1 ELSE first.totalPages

concatData_Prepend(allData, raw) == (IF raw.hasData THEN raw.data ELSE <<>>) \o allData

\* allData.concat(raw.data ?? [])
concatData(allData, raw) == allData \o (IF raw.hasData THEN raw.data ELSE <<>>)

\* The loop of fetchAllPages from page on, envelopes[p] being what fetchUrl
\* returns for page p.
RECURSIVE fetchPagesFrom(_, _, _, _)
fetchPagesFrom(envelopes, page, totalPages, allData) ==
  IF page > totalPages THEN allData
  ELSE fetchPagesFrom(envelopes, page + 1, totalPages, concatData(allData, envelopes[page]))

\* fetchAllPages when every request succeeds.
fetchAllPages(envelopes) ==
  fetchPagesFrom(envelopes, 2, totalPagesOf(envelopes[1]), concatData(<<>>, envelopes[1]))

loopBound_EveryPage(page, raw, totalPages) == totalPagesOf(raw)

\* The bound of the loop of fetchAllPages: totalPages is read from the
\* first page (line 1004) and from no other.
loopBound(page, raw, totalPages) == IF page = 1 THEN totalPagesOf(raw) ELSE totalPages

pageRequests_AllAtOnce(page, totalPages) == (page + 1)..totalPages

\* The requests the loop of fetchAllPages issues once the response for page
\* has come and pages are left: the one for the next page.
pageRequests(page, totalPages) == {page + 1}

\* fetchUrl returns the envelope of the awaited page.  hasData: the envelope
\* has a data field; declared: its pagination.totalPages, NoTotalPages when
\* absent.
\* A paginated fetch with pages left requests the next one; otherwise the
\* merged data is written to the store and the call resolves.
ResponseOk(c, hasData, declared, setItem) ==
  LET call       == calls[c]
      raw        == Envelope(hasData, PageRecords(c, call.page), declared)
      totalPages == IF call.key \in Paginated
                    THEN loopBound(call.page, raw, call.totalPages)
                    ELSE 1
      allData    == concatData(call.data, raw)
      served     == Append(call.served, [hasData |-> hasData, data |-> raw.data])
      first      == IF call.page = 1 THEN declared ELSE call.declared
      inFlight   == (call.inFlight \ {call.page}) \cup pageRequests(call.page, totalPages)
  IN  /\ call.phase = "fetching"
      /\ IF call.page < totalPages
         THEN /\ calls' = [calls EXCEPT ![c].page = call.page + 1,
                                        ![c].totalPages = totalPages,
                                        ![c].data = allData,
                                        ![c].served = served,
                                        ![c].declared = first,
                                        ![c].inFlight = inFlight]
              /\ UNCHANGED <<localStorage, memoryStore, lastCall>>
         ELSE /\ calls' = [calls EXCEPT ![c] = Settled]
              /\ lastCall' = IF writeStoreThrows(setItem)
                             THEN [key |-> call.key,
                                   outcome |-> "rejected", fromCache |-> FALSE,
                                   response |-> [kind |-> "ok", status |-> 200],
                                   error |-> [name |-> setItem]]
                             ELSE [key |-> call.key,
                                   outcome |-> "resolved", fromCache |-> FALSE,
                                   ageMs |-> 0, data |-> allData,
                                   totalPages |-> totalPages, served |-> served,
                                   declared |-> first]
              /\ WriteStore(call.key, allData, TTL(call.key), setItem)
      /\ UNCHANGED <<now, useLocalStorage>>

\* clearCache(key)
ClearCacheKey(key) ==
  /\ IF useLocalStorage
     THEN localStorage' = [localStorage EXCEPT ![key] = NoEntry] /\ UNCHANGED memoryStore
     ELSE memoryStore' = [memoryStore EXCEPT ![key] = NoEntry] /\ UNCHANGED localStorage
  /\ UNCHANGED <<now, useLocalStorage, calls, lastCall>>

\* clearCache()
ClearCacheAll ==
  /\ IF useLocalStorage
     THEN localStorage' = [k \in DatasetKeys |-> NoEntry] /\ UNCHANGED memoryStore
     ELSE memoryStore' = [k \in DatasetKeys |-> NoEntry] /\ UNCHANGED localStorage
  /\ UNCHANGED <<now, useLocalStorage, calls, lastCall>>

\* Five minutes pass.
Tick ==
  /\ now < MaxTime
  /\ now' = now + 1
  /\ UNCHANGED <<useLocalStorage, localStorage, memoryStore, calls, lastCall>>

\* After module load: the probe has run, both stores are empty.
InitCache ==
  /\ hash = "#/"
  /\ detailActive = FALSE
  /\ content = [kind |-> "empty"]
  /\ routes = <<>>
  /\ now = 0
  /\ useLocalStorage \in BOOLEAN
  /\ localStorage = [k \in DatasetKeys |-> NoEntry]
  /\ memoryStore = [k \in DatasetKeys |-> NoEntry]
  /\ calls = <<>>
  /\ lastCall = [key |-> Null, outcome |-> "none", fromCache |-> FALSE]
  /\ _index = <<>>
  /\ _state = "idle"
  /\ _error = Null
  /\ _buildPromise = NoPromise
  /\ builds = <<>>
  /\ settled = [build |-> FALSE]
  /\ returned = [kind |-> "none"]
  /\ searched = [called |-> FALSE]
  /\ _listCache = NullList
  /\ _listPromise = NoPromise
  /\ ardbStorage = NoEntry
  /\ ardbPromises = <<>>
  /\ ardbCalls = <<>>
  /\ ardbGets = 0
  /\ _crossRef = NullMap
  /\ _crossRefPromise = NoPromise
  /\ crossRefCalls = <<>>
  /\ prefetches = <<>>
  /\ _detailCache = <<>>
  /\ render = [phase |-> "none"]
  /\ _loggedUncategorized = {}
  /\ consoleLog = <<>>
  /\ applied = [fn |-> "none"]

\* cachedFetch(cacheKey, ...) reads and writes the store entry and the TTL
\* of cacheKey alone, so the datasets do not act on each other: a behaviour
\* follows the calls for one dataset, any of the five.
OneDataset(key) ==
  /\ lastCall.key \in {Null, key}
  /\ \A c \in 1..Len(calls) : calls[c].phase = "fetching" => calls[c].key = key

NextCache ==
  \/ \E key \in DatasetKeys, forceRefresh \in BOOLEAN :
       OneDataset(key) /\ FetchDataset(key, forceRefresh) /\ UNCHANGED <<indexVars, ardbVars, restVars>>
  \/ \E c \in 1..Len(calls), response \in FailedResponses :
       ResponseFails(c, response) /\ UNCHANGED <<indexVars, ardbVars, restVars>>
  \/ \E c \in 1..Len(calls) :
       ResponseNull(c) /\ UNCHANGED <<indexVars, ardbVars, restVars>>
  \/ \E c \in 1..Len(calls), hasData \in BOOLEAN,
        declared \in NoTotalPages..MaxPages, setItem \in SetItemOutcomes :
       ResponseOk(c, hasData, declared, setItem) /\ UNCHANGED <<indexVars, ardbVars, restVars>>
  \/ \E key \in DatasetKeys : ClearCacheKey(key) /\ UNCHANGED <<indexVars, ardbVars, restVars>>
  \/ ClearCacheAll /\ UNCHANGED <<indexVars, ardbVars, restVars>>
  \/ Tick /\ UNCHANGED <<indexVars, ardbVars, restVars>>

\* The MetaForge fetch service alone: fetches, responses, clears, the clock.
SpecCache == InitCache /\ [][NextCache]_vars

MaxFetches == 1

\* The fetches of one dataset and their responses, with nothing cleared and
\* the clock standing still.
NextFetch ==
  \/ \E key \in DatasetKeys, forceRefresh \in BOOLEAN :
       /\ Len(calls) < MaxFetches
       /\ OneDataset(key)
       /\ FetchDataset(key, forceRefresh)
       /\ UNCHANGED <<indexVars, ardbVars, restVars>>
  \/ \E c \in 1..Len(calls), response \in FailedResponses :
       ResponseFails(c, response) /\ UNCHANGED <<indexVars, ardbVars, restVars>>
  \/ \E c \in 1..Len(calls) :
       ResponseNull(c) /\ UNCHANGED <<indexVars, ardbVars, restVars>>
  \/ \E c \in 1..Len(calls), hasData \in BOOLEAN,
        declared \in NoTotalPages..MaxPages, setItem \in SetItemOutcomes :
       ResponseOk(c, hasData, declared, setItem) /\ UNCHANGED <<indexVars, ardbVars, restVars>>

\* Dataset fetches up to their result.
SpecFetch == InitCache /\ [][NextFetch]_vars

MaxTotalPages == 3
MaxPageFetches == 2

NextPages ==
  \/ \E forceRefresh \in BOOLEAN :
       /\ Len(calls) < MaxPageFetches
       /\ \A c \in 1..Len(calls) : calls[c].phase = "settled"
       /\ FetchDataset("items", forceRefresh)
       /\ UNCHANGED <<indexVars, ardbVars, restVars>>
  \/ \E c \in 1..Len(calls), response \in FailedResponses :
       ResponseFails(c, response) /\ UNCHANGED <<indexVars, ardbVars, restVars>>
  \/ \E c \in 1..Len(calls) :
       ResponseNull(c) /\ UNCHANGED <<indexVars, ardbVars, restVars>>
  \/ \E c \in 1..Len(calls), hasData \in BOOLEAN,
        declared \in NoTotalPages..MaxTotalPages, setItem \in SetItemOutcomes :
       ResponseOk(c, hasData, declared, setItem) /\ UNCHANGED <<indexVars, ardbVars, restVars>>

\* fetchItems called over and over, one call after the other, of up to
\* MaxTotalPages pages each, request by request.
SpecPages == InitCache /\ [][NextPages]_vars

\* ---------------------------------------------------------------------------
\* metaforgeApi.js: prefetchAll
\* ---------------------------------------------------------------------------

MaxPrefetches == 2

\* endpoints, in the order prefetchAll lists them.
PrefetchEndpoints == <<"items", "arcs", "quests", "traders", "eventsSchedule">>

\* What Promise.allSettled reports for the fetch of endpoint key.
PrefetchOutcomes(key) ==
  { [status |-> "fulfilled", reason |-> Null],
    [status |-> "rejected", reason |-> MetaForgeError(500, key)] }

\* The results of Promise.allSettled over the five fetches.
PrefetchResults ==
  { [i \in 1..Len(PrefetchEndpoints) |->
       CHOOSE o \in PrefetchOutcomes(PrefetchEndpoints[i]) :
         (o.status = "rejected") <=> (i \in failing)] :
    failing \in SUBSET (1..Len(PrefetchEndpoints)) }

\* results.forEach(...): ok and failed after the first i results.
RECURSIVE collect(_, _)
collect(results, i) ==
  IF i = 0 THEN [ok |-> <<>>, failed |-> <<>>]
  ELSE LET before == collect(results, i - 1)
       IN  IF results[i].status = "fulfilled"
           THEN [ok |-> Append(before.ok, PrefetchEndpoints[i]), failed |-> before.failed]
           ELSE [ok |-> before.ok,
                 failed |-> Append(before.failed, [endpoint |-> PrefetchEndpoints[i],
                                                   error |-> results[i].reason])]

prefetchRejects_OnFailure(results) ==
  \E i \in 1..Len(results) : results[i].status = "rejected"

\* Promise.allSettled never rejects and nothing after it throws.
prefetchRejects(results) == FALSE

\* prefetchAll({ forceRefresh }) up to its await: the five fetches are started.
PrefetchAll(forceRefresh) ==
  /\ Len(prefetches) < MaxPrefetches
  /\ prefetches' = Append(prefetches, [status |-> "pending", forceRefresh |-> forceRefresh])

\* The five fetches of prefetch call i have settled with results: the rest
\* of prefetchAll.
PrefetchSettled(i, results) ==
  /\ prefetches[i].status = "pending"
  /\ prefetches' =
       [prefetches EXCEPT ![i] =
          IF prefetchRejects(results)
          THEN [status |-> "rejected", forceRefresh |-> prefetches[i].forceRefresh,
                results |-> results]
          ELSE [status |-> "resolved", forceRefresh |-> prefetches[i].forceRefresh,
                results |-> results, value |-> collect(results, Len(results))]]

InitPrefetch ==
  /\ hash = "#/"
  /\ detailActive = FALSE
  /\ content = [kind |-> "empty"]
  /\ routes = <<>>
  /\ prefetches = <<>>
  /\ now = 0
  /\ useLocalStorage = TRUE
  /\ localStorage = [k \in DatasetKeys |-> NoEntry]
  /\ memoryStore = [k \in DatasetKeys |-> NoEntry]
  /\ calls = <<>>
  /\ lastCall = [key |-> Null, outcome |-> "none", fromCache |-> FALSE]
  /\ _index = <<>>
  /\ _state = "idle"
  /\ _error = Null
  /\ _buildPromise = NoPromise
  /\ builds = <<>>
  /\ settled = [build |-> FALSE]
  /\ returned = [kind |-> "none"]
  /\ searched = [called |-> FALSE]
  /\ _listCache = NullList
  /\ _listPromise = NoPromise
  /\ ardbStorage = NoEntry
  /\ ardbPromises = <<>>
  /\ ardbCalls = <<>>
  /\ ardbGets = 0
  /\ _crossRef = NullMap
  /\ _crossRefPromise = NoPromise
  /\ crossRefCalls = <<>>
  /\ _detailCache = <<>>
  /\ render = [phase |-> "none"]
  /\ _loggedUncategorized = {}
  /\ consoleLog = <<>>
  /\ applied = [fn |-> "none"]

NextPrefetch ==
  \/ \E forceRefresh \in BOOLEAN :
       /\ PrefetchAll(forceRefresh)
       /\ UNCHANGED <<indexVars, cacheVars, ardbVars, xrefVars, pageVars, routerVars, applied>>
  \/ \E i \in 1..Len(prefetches), results \in PrefetchResults :
       /\ PrefetchSettled(i, results)
       /\ UNCHANGED <<indexVars, cacheVars, ardbVars, xrefVars, pageVars, routerVars, applied>>

\* prefetchAll alone, the five fetches seen by how they settle.
SpecPrefetch == InitPrefetch /\ [][NextPrefetch]_vars

\* ---------------------------------------------------------------------------
\* ardbApi.js: the ARDB items list
\* ---------------------------------------------------------------------------

MaxArdbCalls == 3

\* LIST_CACHE_TTL, in steps of five minutes.
LIST_CACHE_TTL == 6

\* The names of the list records, in the spellings the cross-reference has
\* to cope with: two spellings of one name, surrounding white space, and a
\* record without a name.
RecordNames == << <<"A", "b">>, <<" ", "a", "b", " ">>, <<"a">>, <<>> >>

\* The list record with the given id.
ArdbRecord(id) == [id |-> id, name |-> RecordNames[(id % Len(RecordNames)) + 1]]

\* The list an earlier page load left in localStorage.
EarlierList == List(<<ArdbRecord(0)>>)

\* line 56: the in-memory list answers the call
hasListCache(forceRefresh) == ~forceRefresh /\ ~_listCache.null

hasListPromise_Never(forceRefresh) == FALSE

\* line 57: the call is handed the promise in _listPromise
hasListPromise(forceRefresh) == ~forceRefresh /\ _listPromise # NoPromise

\* lines 61-66: localStorage holds a list younger than LIST_CACHE_TTL
hasStoredList(forceRefresh) ==
  /\ ~forceRefresh
  /\ ardbStorage.present
  /\ now - ardbStorage.at < LIST_CACHE_TTL

\* fetchArdbItems({ forceRefresh }) up to its return.  Each call is recorded
\* with what it was handed and, in `was`, the state that promise was in.  The async body runs up
\* to its first await within the call: it either returns the stored list (and
\* the assignment at line 59 then puts the promise it returned into
\* _listPromise) or issues GET /api/ardb/items.
FetchArdbItems(forceRefresh) ==
  /\ Len(ardbCalls) < MaxArdbCalls
  /\ IF hasListCache(forceRefresh)
     THEN /\ ardbCalls' = Append(ardbCalls, [forceRefresh |-> forceRefresh, handed |-> "list",
                                             promise |-> NoPromise, list |-> _listCache,
                                             was |-> "none"])
          /\ UNCHANGED <<_listCache, _listPromise, ardbPromises, ardbGets>>
     ELSE IF hasListPromise(forceRefresh)
     THEN /\ ardbCalls' = Append(ardbCalls, [forceRefresh |-> forceRefresh, handed |-> "promise",
                                             promise |-> _listPromise, list |-> NullList,
                                             was |-> ardbPromises[_listPromise].status])
          /\ UNCHANGED <<_listCache, _listPromise, ardbPromises, ardbGets>>
     ELSE /\ ardbCalls' = Append(ardbCalls, [forceRefresh |-> forceRefresh, handed |-> "promise",
                                             promise |-> Len(ardbPromises) + 1, list |-> NullList,
                                             was |-> "new"])
          /\ _listPromise' = Len(ardbPromises) + 1
          /\ IF hasStoredList(forceRefresh)
             THEN /\ _listCache' = ardbStorage.data
                  /\ ardbPromises' = Append(ardbPromises,
                                            [status |-> "fulfilled", get |-> FALSE,
                                             forceRefresh |-> forceRefresh,
                                             value |-> ardbStorage.data])
                  /\ UNCHANGED ardbGets
             ELSE /\ ardbPromises' = Append(ardbPromises,
                                            [status |-> "pending", get |-> TRUE,
                                             forceRefresh |-> forceRefresh,
                                             value |-> NullList])
                  /\ ardbGets' = ardbGets + 1
                  /\ UNCHANGED _listCache
  /\ UNCHANGED ardbStorage

\* The GET of promise p is answered 2xx with a JSON body (lines 81-90).
\* isArray: the body is an array; setItem: what localStorage.setItem does.
ArdbResponseOk(p, isArray, setItem) ==
  LET list == IF isArray THEN List(<<ArdbRecord(p), ArdbRecord(p + 1)>>) ELSE List(<<>>)
  IN  /\ ardbPromises[p].status = "pending"
      /\ _listCache' = list
      /\ ardbStorage' = IF setItem = "ok"
                        THEN [present |-> TRUE, data |-> list, at |-> now]
                        ELSE ardbStorage
      /\ _listPromise' = NoPromise
      /\ ardbPromises' = [ardbPromises EXCEPT ![p].status = "fulfilled", ![p].value = list]
      /\ UNCHANGED <<ardbCalls, ardbGets>>

\* The GET of promise p fails: fetch rejects, the status is not 2xx (line 79)
\* or the body is no JSON.  The promise rejects; nothing else is assigned.
ArdbResponseFails(p) ==
  /\ ardbPromises[p].status = "pending"
  /\ ardbPromises' = [ardbPromises EXCEPT ![p].status = "rejected"]
  /\ UNCHANGED <<_listCache, _listPromise, ardbStorage, ardbCalls, ardbGets>>

\* ---------------------------------------------------------------------------
\* ardbApi.js: the cross-reference map
\* ---------------------------------------------------------------------------

MaxCrossRefCalls == 3

\* Map.prototype.set on a map held as a function from keys to values.
mapSet(map, key, value) ==
  [k \in (DOMAIN map) \cup {key} |-> IF k = key THEN value ELSE map[k]]

\* lines 143-146 from the i-th item on: a record with a non-empty name is set
\* under its trimmed, lower-cased name.
RECURSIVE crossRefFrom(_, _, _)
crossRefFrom(items, i, map) ==
  IF i > Len(items) THEN map
  ELSE crossRefFrom(items, i + 1,
                    IF items[i].name # <<>>
                    THEN mapSet(map, toLowerCase(trim(items[i].name)), items[i])
                    ELSE map)

\* The Map the then-callback of buildArdbCrossRef builds from the list.
crossRefOf(items) == [null |-> FALSE, map |-> crossRefFrom(items, 1, <<>>)]

\* line 139: the map answers the call
hasCrossRef == ~_crossRef.null

hasCrossRefPromise_Never == FALSE

\* line 140: the call is handed the promise in _crossRefPromise
hasCrossRefPromise == _crossRefPromise # NoPromise

\* buildArdbCrossRef() up to its return.  The promise of a build is named by
\* the position of its call in crossRefCalls; a build calls fetchArdbItems()
\* (line 142), which is the call recorded next in ardbCalls.
BuildArdbCrossRef ==
  /\ Len(crossRefCalls) < MaxCrossRefCalls
  /\ IF hasCrossRef
     THEN /\ crossRefCalls' = Append(crossRefCalls,
                                     [handed |-> "map", map |-> _crossRef,
                                      promise |-> NoPromise, call |-> 0, status |-> "none"])
          /\ UNCHANGED <<_crossRef, _crossRefPromise, ardbVars>>
     ELSE IF hasCrossRefPromise
     THEN /\ crossRefCalls' = Append(crossRefCalls,
                                     [handed |-> "promise", map |-> NullMap,
                                      promise |-> _crossRefPromise, call |-> 0,
                                      status |-> "none"])
          /\ UNCHANGED <<_crossRef, _crossRefPromise, ardbVars>>
     ELSE /\ FetchArdbItems(FALSE)
          /\ crossRefCalls' = Append(crossRefCalls,
                                     [handed |-> "build", map |-> NullMap,
                                      promise |-> Len(crossRefCalls) + 1,
                                      call |-> Len(ardbCalls) + 1, status |-> "pending"])
          /\ _crossRefPromise' = Len(crossRefCalls) + 1
          /\ UNCHANGED _crossRef

\* What the fetchArdbItems() call of build b has come to: the list it was
\* handed, or the state of the promise it was handed.
listOfBuild(b) ==
  LET call == ardbCalls[crossRefCalls[b].call]
  IN  IF call.handed = "list"
      THEN [status |-> "fulfilled", value |-> call.list]
      ELSE [status |-> ardbPromises[call.promise].status,
            value  |-> ardbPromises[call.promise].value]

\* lines 142-150: the list of build b is there and the then-callback runs.
CrossRefThen(b) ==
  /\ crossRefCalls[b].handed = "build"
  /\ crossRefCalls[b].status = "pending"
  /\ listOfBuild(b).status = "fulfilled"
  /\ _crossRef' = crossRefOf(listOfBuild(b).value.elements)
  /\ _crossRefPromise' = NoPromise
  /\ crossRefCalls' = [crossRefCalls EXCEPT ![b].status = "fulfilled"]
  /\ UNCHANGED ardbVars

\* fetchArdbItems() of build b rejected: the then-callback is skipped and the
\* promise of the build rejects; nothing is assigned.
CrossRefRejects(b) ==
  /\ crossRefCalls[b].handed = "build"
  /\ crossRefCalls[b].status = "pending"
  /\ listOfBuild(b).status = "rejected"
  /\ crossRefCalls' = [crossRefCalls EXCEPT ![b].status = "rejected"]
  /\ UNCHANGED <<_crossRef, _crossRefPromise, ardbVars>>

\* What lookupArdbByName returns: null, or a list record.
NotFound == [found |-> FALSE]
Found(item) == [found |-> TRUE, item |-> item]

\* The key lookupArdbByName (line 165) looks the name up under.
lookupKey_Untrimmed(name) == toLowerCase(name)

lookupKey(name) == toLowerCase(trim(name))

\* lookupArdbByName(name, crossRef), on a name that is a string.
lookupArdbByName(name, crossRef) ==
  IF crossRef.null \/ name = <<>> THEN NotFound
  ELSE IF lookupKey(name) \in DOMAIN crossRef.map
       THEN Found(crossRef.map[lookupKey(name)])
       ELSE NotFound

\* After module load: no list in memory; localStorage may hold the list of
\* an earlier page load, twenty minutes old.
InitArdb ==
  /\ hash = "#/"
  /\ detailActive = FALSE
  /\ content = [kind |-> "empty"]
  /\ routes = <<>>
  /\ _listCache = NullList
  /\ _listPromise = NoPromise
  /\ ardbStorage \in {NoEntry, [present |-> TRUE, data |-> EarlierList, at |-> 0 - 4]}
  /\ ardbPromises = <<>>
  /\ ardbCalls = <<>>
  /\ ardbGets = 0
  /\ _crossRef = NullMap
  /\ _crossRefPromise = NoPromise
  /\ crossRefCalls = <<>>
  /\ prefetches = <<>>
  /\ _detailCache = <<>>
  /\ render = [phase |-> "none"]
  /\ _loggedUncategorized = {}
  /\ consoleLog = <<>>
  /\ applied = [fn |-> "none"]
  /\ now = 0
  /\ useLocalStorage = TRUE
  /\ localStorage = [k \in DatasetKeys |-> NoEntry]
  /\ memoryStore = [k \in DatasetKeys |-> NoEntry]
  /\ calls = <<>>
  /\ lastCall = [key |-> Null, outcome |-> "none", fromCache |-> FALSE]
  /\ _index = <<>>
  /\ _state = "idle"
  /\ _error = Null
  /\ _buildPromise = NoPromise
  /\ builds = <<>>
  /\ settled = [build |-> FALSE]
  /\ returned = [kind |-> "none"]
  /\ searched = [called |-> FALSE]

NextArdb ==
  \/ \E forceRefresh \in BOOLEAN :
       FetchArdbItems(forceRefresh) /\ UNCHANGED <<indexVars, cacheVars, restVars>>
  \/ \E p \in 1..Len(ardbPromises), isArray \in BOOLEAN,
        setItem \in {"ok", "QuotaExceededError"} :
       ArdbResponseOk(p, isArray, setItem) /\ UNCHANGED <<indexVars, cacheVars, restVars>>
  \/ \E p \in 1..Len(ardbPromises) :
       ArdbResponseFails(p) /\ UNCHANGED <<indexVars, cacheVars, restVars>>
  \/ BuildArdbCrossRef
       /\ UNCHANGED <<indexVars, cacheVars, prefetches, routerVars, pageVars, applied>>
  \/ \E b \in 1..Len(crossRefCalls) :
       CrossRefThen(b) /\ UNCHANGED <<indexVars, cacheVars, prefetches, routerVars, pageVars, applied>>
  \/ \E b \in 1..Len(crossRefCalls) :
       CrossRefRejects(b) /\ UNCHANGED <<indexVars, cacheVars, prefetches, routerVars, pageVars, applied>>
  \/ Tick /\ UNCHANGED <<indexVars, ardbVars, restVars>>

\* The ARDB client: the items list and the cross-reference built from it,
\* with the clock.
SpecArdb == InitArdb /\ [][NextArdb]_vars

\* ---------------------------------------------------------------------------
\* ardbApi.js: lookupArdbByName on the map of a given list
\* ---------------------------------------------------------------------------

MaxListLen == 2

\* The names of records and the names looked up: spellings of "ab" in other
\* case and with white space around, a prefix of it, a name it is a prefix
\* of, the empty name and a blank one.
LookupNames ==
  { <<"A", "b">>, <<"a", "b">>, <<" ", "a", "B", " ">>, <<"a">>,
    <<"a", "b", "b">>, <<>>, <<" ">> }

RECURSIVE NameLists(_)
NameLists(n) ==
  IF n = 0 THEN { <<>> }
  ELSE NameLists(n - 1) \cup
       { Append(l, name) : l \in {x \in NameLists(n - 1) : Len(x) = n - 1},
                           name \in LookupNames }

\* The lists of at most MaxListLen records; the id of a record is its place.
RecordLists ==
  { [i \in 1..Len(names) |-> [id |-> i, name |-> names[i]]] : names \in NameLists(MaxListLen) }

\* fetchArdbItems() resolved to the list and the then-callback of
\* buildArdbCrossRef builds the map from it.
BuildCrossRefOf ==
  /\ applied.fn = "lookupArdbByName"
  /\ _crossRef.null
  /\ _crossRef' = crossRefOf(applied.list)
  /\ UNCHANGED <<applied, _crossRefPromise, crossRefCalls>>

\* lookupArdbByName(applied.name, _crossRef)
LookupArdbByName ==
  /\ applied.fn = "lookupArdbByName"
  /\ ~applied.done
  /\ applied' = [applied EXCEPT !.done = TRUE,
                                !.built = ~_crossRef.null,
                                !.result = lookupArdbByName(applied.name, _crossRef)]
  /\ UNCHANGED <<_crossRef, _crossRefPromise, crossRefCalls>>

InitLookup ==
  /\ hash = "#/"
  /\ detailActive = FALSE
  /\ content = [kind |-> "empty"]
  /\ routes = <<>>
  /\ applied \in { [fn |-> "lookupArdbByName", list |-> l, name |-> n,
                     done |-> FALSE, built |-> FALSE, result |-> NotFound] :
                    l \in RecordLists, n \in LookupNames }
  /\ _crossRef = NullMap
  /\ _crossRefPromise = NoPromise
  /\ crossRefCalls = <<>>
  /\ _listCache = NullList
  /\ _listPromise = NoPromise
  /\ ardbStorage = NoEntry
  /\ ardbPromises = <<>>
  /\ ardbCalls = <<>>
  /\ ardbGets = 0
  /\ prefetches = <<>>
  /\ _detailCache = <<>>
  /\ render = [phase |-> "none"]
  /\ _loggedUncategorized = {}
  /\ consoleLog = <<>>
  /\ now = 0
  /\ useLocalStorage = TRUE
  /\ localStorage = [k \in DatasetKeys |-> NoEntry]
  /\ memoryStore = [k \in DatasetKeys |-> NoEntry]
  /\ calls = <<>>
  /\ lastCall = [key |-> Null, outcome |-> "none", fromCache |-> FALSE]
  /\ _index = <<>>
  /\ _state = "idle"
  /\ _error = Null
  /\ _buildPromise = NoPromise
  /\ builds = <<>>
  /\ settled = [build |-> FALSE]
  /\ returned = [kind |-> "none"]
  /\ searched = [called |-> FALSE]

NextLookup ==
  \/ BuildCrossRefOf /\ UNCHANGED <<indexVars, cacheVars, ardbVars, prefetches, routerVars, pageVars>>
  \/ LookupArdbByName /\ UNCHANGED <<indexVars, cacheVars, ardbVars, prefetches, routerVars, pageVars>>

\* lookupArdbByName applied to a name and the map of a list.
SpecLookup == InitLookup /\ [][NextLookup]_vars

\* ---------------------------------------------------------------------------
\* itemPage.js: renderItemGroup and the detail fetches of its group
\* ---------------------------------------------------------------------------

MaxGroup == 2

\* The ARDB list the cross-reference of the page was built from.
RenderList == << [id |-> "ab", name |-> <<"A", "b">>], [id |-> "a", name |-> <<"a">>] >>

\* The names of the group members: two that are cross-referenced to the
\* same record, one to another record, one to none.
MemberNames == { <<"a", "b">>, <<"A", "b", " ">>, <<"a">>, <<"b">> }

RECURSIVE MemberLists(_)
MemberLists(n) ==
  IF n = 0 THEN { <<>> }
  ELSE MemberLists(n - 1) \cup
       { Append(l, name) : l \in {x \in MemberLists(n - 1) : Len(x) = n - 1},
                           name \in MemberNames }

\* The groups the filter of lines 551-559 can leave, as sortItemsByTier
\* orders them: at most MaxGroup items, the id of an item is its place.
Groups ==
  { [i \in 1..Len(names) |-> [id |-> i, name |-> names[i]]] : names \in MemberLists(MaxGroup) }

\* The detail GET /items/{ardbId} answers with, and no detail.
Detail(ardbId) == [has |-> TRUE, ardbId |-> ardbId]
NoDetail == [has |-> FALSE]

\* Map.prototype.get(key) ?? null on a map of details.
detailOf(map, key) == IF key \in DOMAIN map THEN map[key] ELSE NoDetail

\* The async callback of line 585 for one member, up to its first await
\* that waits for the network: the member is skipped when its name is not
\* cross-referenced (line 587); fetchArdbItem answers from _detailCache
\* (line 111) or issues the GET (line 113).
memberStart(item, crossRef) ==
  LET ardbListItem == lookupArdbByName(item.name, crossRef)
  IN  IF ~ardbListItem.found
      THEN [id |-> item.id, name |-> item.name, status |-> "skipped", ardbId |-> Null, get |-> FALSE]
      ELSE IF ardbListItem.item.id \in DOMAIN _detailCache
      THEN [id |-> item.id, name |-> item.name, status |-> "fulfilled",
            ardbId |-> ardbListItem.item.id, get |-> FALSE]
      ELSE [id |-> item.id, name |-> item.name, status |-> "pending",
            ardbId |-> ardbListItem.item.id, get |-> TRUE]

\* lines 588-590 for the members answered from _detailCache.
RECURSIVE cachedDetails(_, _, _)
cachedDetails(members, i, map) ==
  IF i > Len(members) THEN map
  ELSE cachedDetails(members, i + 1,
                     IF members[i].status = "fulfilled"
                     THEN mapSet(map, members[i].id, _detailCache[members[i].ardbId])
                     ELSE map)

allSettled_Any(members) == \E i \in 1..Len(members) : members[i].status # "pending"

\* Promise.allSettled (line 584) resolves when every member has settled.
allSettled(members) == \A i \in 1..Len(members) : members[i].status # "pending"

\* The panels of the page: each member with ardbDetailMap.get(item.id) ?? null
\* (lines 611 and 640).
pageOf(members, ardbDetailMap) ==
  [i \in 1..Len(members) |-> [id |-> members[i].id,
                              ardbDetail |-> detailOf(ardbDetailMap, members[i].id)]]

\* renderItemGroup(slug, container) up to the await of line 544.
RenderItemGroup ==
  /\ render.phase = "none"
  /\ render' = [phase |-> "loading"]
  /\ UNCHANGED _detailCache

\* fetchItems() rejected: so does Promise.all (line 544) and the call.
RenderItemsFail ==
  /\ render.phase = "loading"
  /\ render' = [phase |-> "done", promise |-> "rejected", cause |-> "fetchItems",
                members |-> <<>>, ardbDetailMap |-> <<>>, page |-> <<>>,
                container |-> "untouched"]
  /\ UNCHANGED _detailCache

\* Promise.all resolved (lines 544-596): group is what the filter left and
\* ardbCrossRef the map, or null when buildArdbCrossRef rejected.  Without
\* a group the not-found page is written; without a map the page is rendered
\* at once; otherwise the callbacks of all members run up to their await.
RenderLoaded(group, ardbCrossRef) ==
  LET members == [i \in 1..Len(group) |-> memberStart(group[i], ardbCrossRef)]
      none    == [i \in 1..Len(group) |->
                    [id |-> group[i].id, name |-> group[i].name, status |-> "skipped",
                     ardbId |-> Null, get |-> FALSE]]
  IN  /\ render.phase = "loading"
      /\ render' =
           IF group = <<>>
           THEN [phase |-> "done", promise |-> "fulfilled", cause |-> Null,
                 members |-> <<>>, ardbDetailMap |-> <<>>, page |-> <<>>,
                 container |-> "not-found"]
           ELSE IF ardbCrossRef.null
           THEN [phase |-> "done", promise |-> "fulfilled", cause |-> Null,
                 members |-> none, ardbDetailMap |-> <<>>, page |-> pageOf(none, <<>>),
                 container |-> "page"]
           ELSE [phase |-> "details", promise |-> "pending", cause |-> Null,
                 members |-> members,
                 ardbDetailMap |-> cachedDetails(members, 1, <<>>),
                 page |-> <<>>, container |-> "untouched"]
      /\ UNCHANGED _detailCache

\* The GET of member i is answered 2xx with a JSON body (lines 118-120, 590).
DetailOk(i) ==
  /\ render.phase \in {"details", "done"}
  /\ render.members[i].status = "pending"
  /\ _detailCache' = mapSet(_detailCache, render.members[i].ardbId,
                            Detail(render.members[i].ardbId))
  /\ render' = [render EXCEPT
                  !.members[i].status = "fulfilled",
                  !.ardbDetailMap = mapSet(@, render.members[i].id,
                                           Detail(render.members[i].ardbId))]

\* The GET of member i fails: fetch rejects, the status is not 2xx (line
\* 116) or the body is no JSON.  fetchArdbItem rejects and the catch of
\* line 591 logs it.
DetailFails(i) ==
  /\ render.phase \in {"details", "done"}
  /\ render.members[i].status = "pending"
  /\ render' = [render EXCEPT !.members[i].status = "failed"]
  /\ UNCHANGED _detailCache

\* lines 598-end: Promise.allSettled resolved and the page is written.
RenderPage ==
  /\ render.phase = "details"
  /\ allSettled(render.members)
  /\ render' = [render EXCEPT !.phase = "done", !.promise = "fulfilled",
                              !.page = pageOf(render.members, render.ardbDetailMap),
                              !.container = "page"]
  /\ UNCHANGED _detailCache

InitRender ==
  /\ hash = "#/"
  /\ detailActive = FALSE
  /\ content = [kind |-> "empty"]
  /\ routes = <<>>
  /\ _crossRef \in {NullMap, crossRefOf(RenderList)}
  /\ _detailCache \in {<<>>, mapSet(<<>>, "a", Detail("a"))}
  /\ render = [phase |-> "none"]
  /\ _loggedUncategorized = {}
  /\ consoleLog = <<>>
  /\ applied = [fn |-> "none"]
  /\ _crossRefPromise = NoPromise
  /\ crossRefCalls = <<>>
  /\ _listCache = NullList
  /\ _listPromise = NoPromise
  /\ ardbStorage = NoEntry
  /\ ardbPromises = <<>>
  /\ ardbCalls = <<>>
  /\ ardbGets = 0
  /\ prefetches = <<>>
  /\ now = 0
  /\ useLocalStorage = TRUE
  /\ localStorage = [k \in DatasetKeys |-> NoEntry]
  /\ memoryStore = [k \in DatasetKeys |-> NoEntry]
  /\ calls = <<>>
  /\ lastCall = [key |-> Null, outcome |-> "none", fromCache |-> FALSE]
  /\ _index = <<>>
  /\ _state = "idle"
  /\ _error = Null
  /\ _buildPromise = NoPromise
  /\ builds = <<>>
  /\ settled = [build |-> FALSE]
  /\ returned = [kind |-> "none"]
  /\ searched = [called |-> FALSE]

NextRender ==
  \/ RenderItemGroup
       /\ UNCHANGED <<indexVars, cacheVars, ardbVars, xrefVars, prefetches, routerVars, bucketVars, applied>>
  \/ RenderItemsFail
       /\ UNCHANGED <<indexVars, cacheVars, ardbVars, xrefVars, prefetches, routerVars, bucketVars, applied>>
  \/ \E group \in Groups :
       RenderLoaded(group, _crossRef)
       /\ UNCHANGED <<indexVars, cacheVars, ardbVars, xrefVars, prefetches, routerVars, bucketVars, applied>>
  \/ \E i \in 1..MaxGroup :
       /\ render.phase \in {"details", "done"}
       /\ i <= Len(render.members)
       /\ DetailOk(i)
       /\ UNCHANGED <<indexVars, cacheVars, ardbVars, xrefVars, prefetches, routerVars, bucketVars, applied>>
  \/ \E i \in 1..MaxGroup :
       /\ render.phase \in {"details", "done"}
       /\ i <= Len(render.members)
       /\ DetailFails(i)
       /\ UNCHANGED <<indexVars, cacheVars, ardbVars, xrefVars, prefetches, routerVars, bucketVars, applied>>
  \/ RenderPage
       /\ UNCHANGED <<indexVars, cacheVars, ardbVars, xrefVars, prefetches, routerVars, bucketVars, applied>>

\* One renderItemGroup call and the detail fetches of its group.
SpecRender == InitRender /\ [][NextRender]_vars

\* ---------------------------------------------------------------------------
\* searchIndex.js: normalizeBaseName
\* ---------------------------------------------------------------------------
\* A name is held as the sequence of its words, which single spaces separate
\* in the string; "Mk. 3" (the form /[Mm][Kk]\.\s*\d+/ matches) is one word.
\* Every pattern of normalizeBaseName starts with \s+, so it matches a word
\* together with the white space before it and never the first word.

MaxTierTokens == 3

BaseWord == "Anvil"

\* The tier tokens, in the spellings the patterns accept.
TierTokens == {"Blueprint", "recipe", "Mk. 3", "mk.12", "II", "iv", "V", "3", "10"}

\* The words each pattern matches after white space.
BlueprintPattern == {"Blueprint", "blueprint", "BLUEPRINT"}
RecipePattern    == {"Recipe", "recipe", "RECIPE"}
MkPattern        == {"Mk. 3", "mk.12"}
RomanPattern     == {"I", "II", "III", "IV", "V", "i", "ii", "iii", "iv", "v"}
DigitsPattern    == {"3", "10"}

\* replace(/\s+<word>/g, ''): every word but the first that the pattern
\* matches is removed.
RECURSIVE keepFrom(_, _, _)
keepFrom(words, i, removed) ==
  IF i > Len(words) THEN <<>>
  ELSE IF i \in removed
       THEN keepFrom(words, i + 1, removed)
       ELSE <<words[i]>> \o keepFrom(words, i + 1, removed)

removeAll(words, pattern) ==
  keepFrom(words, 1, {i \in 2..Len(words) : words[i] \in pattern})

\* replace(/\s+<word>$/, ''): the last word is removed when the pattern
\* matches it and it is not the first.
removeLast(words, pattern) ==
  IF Len(words) > 1 /\ words[Len(words)] \in pattern
  THEN SubSeq(words, 1, Len(words) - 1)
  ELSE words

\* normalizeBaseName(name), lines 63-69; trim() finds no white space left
\* around the words.
normalizeBaseName(name) ==
  removeLast(
    removeLast(
      removeAll(removeAll(removeAll(name, BlueprintPattern), RecipePattern), MkPattern),
      RomanPattern),
    DigitsPattern)

RECURSIVE TokenLists(_)
TokenLists(n) ==
  IF n = 0 THEN { <<>> }
  ELSE TokenLists(n - 1) \cup
       { Append(l, t) : l \in {x \in TokenLists(n - 1) : Len(x) = n - 1},
                        t \in TierTokens }

\* The names: the base word followed by at most MaxTierTokens tier tokens.
TierNames == { <<BaseWord>> \o tokens : tokens \in TokenLists(MaxTierTokens) }

\* normalizeBaseName(applied.name)
NormalizeBaseName ==
  /\ applied.fn = "normalizeBaseName"
  /\ applied.times = 0
  /\ applied' = [applied EXCEPT !.times = 1, !.once = normalizeBaseName(applied.name),
                                !.twice = normalizeBaseName(applied.name)]

\* normalizeBaseName applied to the name it returned.
NormalizeAgain ==
  /\ applied.fn = "normalizeBaseName"
  /\ applied.times = 1
  /\ applied' = [applied EXCEPT !.times = 2, !.twice = normalizeBaseName(applied.once)]

InitNormalize ==
  /\ hash = "#/"
  /\ detailActive = FALSE
  /\ content = [kind |-> "empty"]
  /\ routes = <<>>
  /\ applied \in { [fn |-> "normalizeBaseName", name |-> name, times |-> 0,
                     once |-> name, twice |-> name] : name \in TierNames }
  /\ _crossRef = NullMap
  /\ _crossRefPromise = NoPromise
  /\ crossRefCalls = <<>>
  /\ _detailCache = <<>>
  /\ render = [phase |-> "none"]
  /\ _loggedUncategorized = {}
  /\ consoleLog = <<>>
  /\ _listCache = NullList
  /\ _listPromise = NoPromise
  /\ ardbStorage = NoEntry
  /\ ardbPromises = <<>>
  /\ ardbCalls = <<>>
  /\ ardbGets = 0
  /\ prefetches = <<>>
  /\ now = 0
  /\ useLocalStorage = TRUE
  /\ localStorage = [k \in DatasetKeys |-> NoEntry]
  /\ memoryStore = [k \in DatasetKeys |-> NoEntry]
  /\ calls = <<>>
  /\ lastCall = [key |-> Null, outcome |-> "none", fromCache |-> FALSE]
  /\ _index = <<>>
  /\ _state = "idle"
  /\ _error = Null
  /\ _buildPromise = NoPromise
  /\ builds = <<>>
  /\ settled = [build |-> FALSE]
  /\ returned = [kind |-> "none"]
  /\ searched = [called |-> FALSE]

NextNormalize ==
  \/ NormalizeBaseName
       /\ UNCHANGED <<indexVars, cacheVars, ardbVars, xrefVars, prefetches, routerVars, pageVars>>
  \/ NormalizeAgain
       /\ UNCHANGED <<indexVars, cacheVars, ardbVars, xrefVars, prefetches, routerVars, pageVars>>

\* normalizeBaseName applied to a name and to its own result.
SpecNormalize == InitNormalize /\ [][NextNormalize]_vars

\* ---------------------------------------------------------------------------
\* itemPage.js: getTierLabel, TIER_ORDER, sortItemsByTier
\* ---------------------------------------------------------------------------
\* Names are sequences of words as for normalizeBaseName; Spelling gives the
\* characters of a word where names or labels are compared.

MaxSortLen == 3

Spelling(w) ==
  CASE w = "Anvil"     -> <<"A", "n", "v", "i", "l">>
    [] w = "anvil"     -> <<"a", "n", "v", "i", "l">>
    [] w = "Bolt"      -> <<"B", "o", "l", "t">>
    [] w = "Blueprint" -> <<"B", "l", "u", "e", "p", "r", "i", "n", "t">>
    [] w = "Recipe"    -> <<"R", "e", "c", "i", "p", "e">>
    [] w = "recipe"    -> <<"r", "e", "c", "i", "p", "e">>
    [] w = "Mk. 3"     -> <<"M", "k", ".", " ", "3">>
    [] w = "mk.12"     -> <<"m", "k", ".", "1", "2">>
    [] w = "I"         -> <<"I">>
    [] w = "II"        -> <<"I", "I">>
    [] w = "ii"        -> <<"i", "i">>
    [] w = "iv"        -> <<"i", "v">>
    [] w = "IV"        -> <<"I", "V">>
    [] w = "V"         -> <<"V">>
    [] w = "1"         -> <<"1">>
    [] w = "3"         -> <<"3">>
    [] w = "10"        -> <<"1", "0">>
    [] w = "??"        -> <<"?", "?">>

\* The string of a name: its words with single spaces between them.
RECURSIVE spell(_)
spell(name) ==
  IF name = <<>> THEN <<>>
  ELSE IF Len(name) = 1 THEN Spelling(name[1])
  ELSE Spelling(name[1]) \o <<" ">> \o spell(Tail(name))

\* rv[1].toUpperCase() on a Roman numeral (line 115)
toUpperCaseRoman(w) ==
  CASE w = "i" -> "I" [] w = "ii" -> "II" [] w = "iii" -> "III"
    [] w = "iv" -> "IV" [] w = "v" -> "V" [] OTHER -> w

\* The digit words of the model, those of one digit and more.
TierDigits == DigitsPattern \cup {"1"}

\* getTierLabel(itemName), lines 109-119.  \bBlueprint\b and \bRecipe\b match
\* any word, the first included; the other patterns need white space before.
getTierLabel(name) ==
  LET mks == {i \in 2..Len(name) : name[i] \in MkPattern}
      last == name[Len(name)]
  IN  IF \E i \in 1..Len(name) : name[i] \in BlueprintPattern THEN "Blueprint"
      ELSE IF \E i \in 1..Len(name) : name[i] \in RecipePattern THEN "Recipe"
      ELSE IF mks # {} THEN name[CHOOSE i \in mks : \A j \in mks : i <= j]
      ELSE IF Len(name) > 1 /\ last \in RomanPattern THEN toUpperCaseRoman(last)
      ELSE IF Len(name) > 1 /\ last \in TierDigits THEN last
      ELSE Null

TIER_ORDER == <<"I", "II", "III", "IV", "V", "1", "2", "3", "4", "5", "Blueprint", "Recipe">>

\* TIER_ORDER.indexOf(label)
tierIndexOf(label) ==
  IF \E i \in 1..Len(TIER_ORDER) : TIER_ORDER[i] = label
  THEN (CHOOSE i \in 1..Len(TIER_ORDER) : TIER_ORDER[i] = label) - 1
  ELSE -1

\* The comparator of sortItemsByTier, lines 124-137.
compareByTier(a, b) ==
  LET la == getTierLabel(a.name)
      lb == getTierLabel(b.name)
      ia == tierIndexOf(la)
      ib == tierIndexOf(lb)
  IN  IF la = Null /\ lb = Null THEN localeCompare(spell(a.name), spell(b.name))
      ELSE IF la = Null THEN -1
      ELSE IF lb = Null THEN 1
      ELSE IF ia # -1 /\ ib # -1 THEN ia - ib
      ELSE IF ia # -1 THEN -1
      ELSE IF ib # -1 THEN 1
      ELSE localeCompare(Spelling(la), Spelling(lb))

\* Array.prototype.sort is stable: r goes behind every element that does not
\* compare greater than it.
RECURSIVE insertByTier(_, _)
insertByTier(sorted, r) ==
  IF sorted = <<>> THEN <<r>>
  ELSE IF compareByTier(Head(sorted), r) <= 0
       THEN <<Head(sorted)>> \o insertByTier(Tail(sorted), r)
       ELSE <<r>> \o sorted

\* sortItemsByTier(items)
RECURSIVE sortItemsByTier(_)
sortItemsByTier(items) ==
  IF items = <<>> THEN <<>>
  ELSE insertByTier(sortItemsByTier(SubSeq(items, 1, Len(items) - 1)), items[Len(items)])

\* The names of the members of one group (their slug is "anvil").
SortNames ==
  { <<"Anvil">>, <<"anvil">>, <<"Anvil", "II">>, <<"anvil", "ii">>, <<"Anvil", "V">>,
    <<"Anvil", "1">>, <<"Anvil", "Mk. 3">>, <<"Anvil", "Blueprint">>,
    <<"Anvil", "II", "Blueprint">>, <<"Anvil", "recipe">> }

RECURSIVE SortNameLists(_)
SortNameLists(n) ==
  IF n = 0 THEN { <<>> }
  ELSE SortNameLists(n - 1) \cup
       { Append(l, name) : l \in {x \in SortNameLists(n - 1) : Len(x) = n - 1},
                           name \in SortNames }

\* The groups handed to sortItemsByTier, in the order the fetched list
\* declares their members; the id of an item is its place in that order.
SortLists ==
  { [i \in 1..Len(names) |-> [id |-> i, name |-> names[i]]] : names \in SortNameLists(MaxSortLen) }

\* sortItemsByTier(applied.items)
SortItemsByTier ==
  /\ applied.fn = "sortItemsByTier"
  /\ ~applied.done
  /\ applied' = [applied EXCEPT !.done = TRUE, !.result = sortItemsByTier(applied.items)]

InitTierSort ==
  /\ hash = "#/"
  /\ detailActive = FALSE
  /\ content = [kind |-> "empty"]
  /\ routes = <<>>
  /\ applied \in { [fn |-> "sortItemsByTier", items |-> items, done |-> FALSE,
                     result |-> <<>>] : items \in SortLists }
  /\ _crossRef = NullMap
  /\ _crossRefPromise = NoPromise
  /\ crossRefCalls = <<>>
  /\ _detailCache = <<>>
  /\ render = [phase |-> "none"]
  /\ _loggedUncategorized = {}
  /\ consoleLog = <<>>
  /\ _listCache = NullList
  /\ _listPromise = NoPromise
  /\ ardbStorage = NoEntry
  /\ ardbPromises = <<>>
  /\ ardbCalls = <<>>
  /\ ardbGets = 0
  /\ prefetches = <<>>
  /\ now = 0
  /\ useLocalStorage = TRUE
  /\ localStorage = [k \in DatasetKeys |-> NoEntry]
  /\ memoryStore = [k \in DatasetKeys |-> NoEntry]
  /\ calls = <<>>
  /\ lastCall = [key |-> Null, outcome |-> "none", fromCache |-> FALSE]
  /\ _index = <<>>
  /\ _state = "idle"
  /\ _error = Null
  /\ _buildPromise = NoPromise
  /\ builds = <<>>
  /\ settled = [build |-> FALSE]
  /\ returned = [kind |-> "none"]
  /\ searched = [called |-> FALSE]

NextTierSort ==
  SortItemsByTier /\ UNCHANGED <<indexVars, cacheVars, ardbVars, xrefVars, prefetches, routerVars, pageVars>>

\* sortItemsByTier applied to a group.
SpecTierSort == InitTierSort /\ [][NextTierSort]_vars

\* ---------------------------------------------------------------------------
\* searchIndex.js: nameToSlug; listPages.js: groupMap, tierIdx, pickRep;
\* itemPage.js: the group of a slug
\* ---------------------------------------------------------------------------

MaxItems == 3

\* [a-z0-9], in the characters of the model
SlugChars ==
  {"a", "b", "c", "d", "e", "i", "k", "l", "m", "n", "o", "p", "r", "s", "t", "u", "v",
   "0", "1", "2", "3"}

\* replace(/[^a-z0-9]+/g, '-').replace(/^-+|-+$/g, '') from the i-th
\* character on: a run of other characters becomes one "-" when slug
\* characters stand on both sides of it and nothing otherwise.
RECURSIVE slugFrom(_, _, _, _)
slugFrom(s, i, out, run) ==
  IF i > Len(s) THEN out
  ELSE IF s[i] \in SlugChars
       THEN slugFrom(s, i + 1,
                     (IF run /\ out # <<>> THEN Append(out, "-") ELSE out) \o <<s[i]>>, FALSE)
       ELSE slugFrom(s, i + 1, out, TRUE)

\* nameToSlug(name), line 80, on the string of a name
nameToSlug(s) == slugFrom(toLowerCase(s), 1, <<>>, FALSE)

groupKey_RawName(item) == nameToSlug(spell(item.name))

\* lines 466-467: the slug an item is grouped under
groupKey(item) == nameToSlug(spell(normalizeBaseName(item.name)))

\* lines 465-470 from the i-th item on; groupMap is held as the sequence of
\* its values in insertion order.
RECURSIVE groupFrom(_, _, _)
groupFrom(items, i, groupMap) ==
  IF i > Len(items) THEN groupMap
  ELSE LET slug == groupKey(items[i])
           at   == {g \in 1..Len(groupMap) : groupMap[g].slug = slug}
       IN  groupFrom(items, i + 1,
             IF at = {}
             THEN Append(groupMap, [slug |-> slug,
                                    baseName |-> normalizeBaseName(items[i].name),
                                    items |-> <<items[i]>>])
             ELSE [groupMap EXCEPT ![CHOOSE g \in at : TRUE].items = Append(@, items[i])])

\* parseInt(digits, 10) of the digits in a Mk. or digit word
parseIntOf(w) ==
  CASE w \in {"1"} -> 1
    [] w \in {"3", "Mk. 3"} -> 3
    [] w = "10" -> 10
    [] w = "mk.12" -> 12

\* { I: 0, II: 1, III: 2, IV: 3, V: 4 }[rv[1].toUpperCase()]
romanIdx(w) ==
  CASE toUpperCaseRoman(w) = "I" -> 0
    [] toUpperCaseRoman(w) = "II" -> 1
    [] toUpperCaseRoman(w) = "III" -> 2
    [] toUpperCaseRoman(w) = "IV" -> 3
    [] toUpperCaseRoman(w) = "V" -> 4

\* tierIdx(name), lines 474-484
tierIdx(name) ==
  LET mks == {i \in 2..Len(name) : name[i] \in MkPattern}
      last == name[Len(name)]
  IN  IF \E i \in 1..Len(name) : name[i] \in BlueprintPattern \cup RecipePattern THEN -1
      ELSE IF Len(name) > 1 /\ last \in RomanPattern THEN romanIdx(last)
      ELSE IF mks # {} THEN parseIntOf(name[CHOOSE i \in mks : \A j \in mks : i <= j]) - 1
      ELSE IF Len(name) > 1 /\ last \in TierDigits THEN parseIntOf(last) - 1
      ELSE 0

\* line 490: (i.item_type ?? '').toLowerCase() is 'blueprint' or 'recipe'
isPrintType(item) == item.item_type \in {"Blueprint", "blueprint", "Recipe", "recipe"}

pickBetter_LastOnTie(best, cur) == IF tierIdx(cur.name) >= tierIdx(best.name) THEN cur ELSE best

\* the reducer of line 493-495
pickBetter(best, cur) == IF tierIdx(cur.name) > tierIdx(best.name) THEN cur ELSE best

\* candidates.reduce(...) without an initial value
RECURSIVE reduceRep(_, _, _)
reduceRep(candidates, i, best) ==
  IF i > Len(candidates) THEN best
  ELSE reduceRep(candidates, i + 1, pickBetter(best, candidates[i]))

\* pickRep(groupItems), lines 488-496; a group is never empty
pickRep(groupItems) ==
  LET nonBP == SelectSeq(groupItems, LAMBDA i : ~isPrintType(i))
      candidates == IF nonBP # <<>> THEN nonBP ELSE groupItems
  IN  reduceRep(candidates, 2, candidates[1])

\* renderItemGroup, lines 551-559: the items whose key is the slug or, when
\* there is none, the first item whose id is the slug.
itemGroupOf(items, slug) ==
  LET group == SelectSeq(items, LAMBDA item : groupKey(item) = slug)
      byId  == {i \in 1..Len(items) : items[i].id = slug}
  IN  IF group # <<>> THEN group
      ELSE IF byId # {} THEN <<items[CHOOSE i \in byId : \A j \in byId : i <= j]>>
      ELSE <<>>

\* An item of the fetched list; its id is the slug of its full name.
Item(name, item_type) ==
  [id |-> nameToSlug(spell(name)), name |-> name, item_type |-> item_type]

\* The items the fetched list is made of: tiers of two base names, Blueprint
\* and Recipe items, and a name whose key is not that of its base word.
FetchedItems ==
  { Item(<<"Anvil">>, "Weapon"), Item(<<"Anvil", "II">>, "Weapon"),
    Item(<<"Anvil", "Mk. 3">>, "Weapon"), Item(<<"Anvil", "3">>, "Modification"),
    Item(<<"Anvil", "Blueprint">>, "Blueprint"), Item(<<"Anvil", "recipe">>, "Recipe"),
    Item(<<"Anvil", "3", "3">>, "Weapon"),
    Item(<<"Bolt", "V">>, "Weapon"), Item(<<"Bolt", "Blueprint">>, "Blueprint") }

RECURSIVE ItemListsOf(_)
ItemListsOf(n) ==
  IF n = 0 THEN { <<>> }
  ELSE ItemListsOf(n - 1) \cup
       { Append(l, item) : l \in {x \in ItemListsOf(n - 1) : Len(x) = n - 1},
                           item \in FetchedItems }

\* The lists fetchItems() resolves with, of at most MaxItems items.
ItemLists == ItemListsOf(MaxItems)

\* renderItemsList, lines 464-470: groupMap is built from the fetched list.
BuildGroupMap ==
  /\ applied.fn = "groupItems"
  /\ applied.step = "fetched"
  /\ applied' = [applied EXCEPT !.step = "grouped",
                                !.groupMap = groupFrom(applied.items, 1, <<>>)]

\* buildGroupCard for every group (line 500): its representative.
BuildGroupCards ==
  /\ applied.fn = "groupItems"
  /\ applied.step = "grouped"
  /\ applied' = [applied EXCEPT !.step = "cards",
                                !.reps = [g \in 1..Len(applied.groupMap) |->
                                            pickRep(applied.groupMap[g].items)]]

\* A card is followed to #/item/{slug}, or an item is linked by its id:
\* renderItemGroup takes the group of the slug from the fetched list.
FilterGroup(slug) ==
  /\ applied.fn = "groupItems"
  /\ applied.step = "cards"
  /\ applied' = [applied EXCEPT !.step = "page", !.slug = slug,
                                !.group = itemGroupOf(applied.items, slug)]

InitGroup ==
  /\ hash = "#/"
  /\ detailActive = FALSE
  /\ content = [kind |-> "empty"]
  /\ routes = <<>>
  /\ applied \in { [fn |-> "groupItems", items |-> items, step |-> "fetched",
                     groupMap |-> <<>>, reps |-> <<>>, slug |-> <<>>, group |-> <<>>] :
                    items \in ItemLists }
  /\ _crossRef = NullMap
  /\ _crossRefPromise = NoPromise
  /\ crossRefCalls = <<>>
  /\ _detailCache = <<>>
  /\ render = [phase |-> "none"]
  /\ _loggedUncategorized = {}
  /\ consoleLog = <<>>
  /\ _listCache = NullList
  /\ _listPromise = NoPromise
  /\ ardbStorage = NoEntry
  /\ ardbPromises = <<>>
  /\ ardbCalls = <<>>
  /\ ardbGets = 0
  /\ prefetches = <<>>
  /\ now = 0
  /\ useLocalStorage = TRUE
  /\ localStorage = [k \in DatasetKeys |-> NoEntry]
  /\ memoryStore = [k \in DatasetKeys |-> NoEntry]
  /\ calls = <<>>
  /\ lastCall = [key |-> Null, outcome |-> "none", fromCache |-> FALSE]
  /\ _index = <<>>
  /\ _state = "idle"
  /\ _error = Null
  /\ _buildPromise = NoPromise
  /\ builds = <<>>
  /\ settled = [build |-> FALSE]
  /\ returned = [kind |-> "none"]
  /\ searched = [called |-> FALSE]

NextGroup ==
  \/ BuildGroupMap
       /\ UNCHANGED <<indexVars, cacheVars, ardbVars, xrefVars, prefetches, routerVars, pageVars>>
  \/ BuildGroupCards
       /\ UNCHANGED <<indexVars, cacheVars, ardbVars, xrefVars, prefetches, routerVars, pageVars>>
  \/ \E i \in 1..MaxItems :
       /\ applied.fn = "groupItems"
       /\ i <= Len(applied.items)
       /\ \E slug \in {groupKey(applied.items[i]), applied.items[i].id} : FilterGroup(slug)
       /\ UNCHANGED <<indexVars, cacheVars, ardbVars, xrefVars, prefetches, routerVars, pageVars>>

\* The items list grouped, its cards built and one group page opened.
SpecGroup == InitGroup /\ [][NextGroup]_vars

\* ---------------------------------------------------------------------------
\* listPages.js: BUCKET_MAP, getBucket
\* ---------------------------------------------------------------------------

MaxLookups == 3

\* BUCKET_MAP, lines 390-409: the entries, key and bucket
BUCKET_MAP ==
  << <<<<"w", "e", "a", "p", "o", "n">>, "Weapons">>,
     <<<<"m", "o", "d", "i", "f", "i", "c", "a", "t", "i", "o", "n">>, "Attachments">>,
     <<<<"m", "o", "d", "s">>, "Attachments">>,
     <<<<"q", "u", "i", "c", "k", " ", "u", "s", "e">>, "Consumables">>,
     <<<<"c", "o", "n", "s", "u", "m", "a", "b", "l", "e">>, "Consumables">>,
     <<<<"t", "o", "p", "s", "i", "d", "e", " ", "m", "a", "t", "e", "r", "i", "a", "l">>, "Materials">>,
     <<<<"r", "e", "f", "i", "n", "e", "d", " ", "m", "a", "t", "e", "r", "i", "a", "l">>, "Materials">>,
     <<<<"b", "a", "s", "i", "c", " ", "m", "a", "t", "e", "r", "i", "a", "l">>, "Materials">>,
     <<<<"a", "d", "v", "a", "n", "c", "e", "d", " ", "m", "a", "t", "e", "r", "i", "a", "l">>, "Materials">>,
     <<<<"m", "a", "t", "e", "r", "i", "a", "l">>, "Materials">>,
     <<<<"b", "l", "u", "e", "p", "r", "i", "n", "t">>, "Blueprints">>,
     <<<<"s", "h", "i", "e", "l", "d">>, "Armor">> >>

\* BUCKET_MAP.get(key) ?? null
bucketOf(key) ==
  IF \E e \in 1..Len(BUCKET_MAP) : BUCKET_MAP[e][1] = key
  THEN BUCKET_MAP[CHOOSE e \in 1..Len(BUCKET_MAP) : BUCKET_MAP[e][1] = key][2]
  ELSE Null

hasLogged_Never(itemType) == FALSE

\* line 419: _loggedUncategorized.has(itemType)
hasLogged(itemType) == itemType \in _loggedUncategorized

\* getBucket(itemType), lines 415-424; an absent item_type is the empty one
GetBucket(itemType) ==
  LET bucket == IF itemType = <<>> THEN Null ELSE bucketOf(trim(toLowerCase(itemType)))
      logs   == itemType # <<>> /\ bucket = Null /\ ~hasLogged(itemType)
  IN  /\ applied.fn = "getBucket"
      /\ Len(applied.lookups) < MaxLookups
      /\ applied' = [applied EXCEPT !.lookups = Append(@, [itemType |-> itemType,
                                                           bucket |-> bucket])]
      /\ consoleLog' = IF logs THEN Append(consoleLog, itemType) ELSE consoleLog
      /\ _loggedUncategorized' =
           IF logs THEN _loggedUncategorized \cup {itemType} ELSE _loggedUncategorized

\* The item_type values looked up: two in BUCKET_MAP up to case and white
\* space, three that are not, and the empty one.
ItemTypes ==
  { <<"m", "o", "d", "s">>, <<" ", "B", "l", "u", "e", "p", "r", "i", "n", "t">>,
    <<"a", "b">>, <<"A", "b">>, <<" ">>, <<>> }

InitBucket ==
  /\ hash = "#/"
  /\ detailActive = FALSE
  /\ content = [kind |-> "empty"]
  /\ routes = <<>>
  /\ applied = [fn |-> "getBucket", lookups |-> <<>>]
  /\ _loggedUncategorized = {}
  /\ consoleLog = <<>>
  /\ _crossRef = NullMap
  /\ _crossRefPromise = NoPromise
  /\ crossRefCalls = <<>>
  /\ _detailCache = <<>>
  /\ render = [phase |-> "none"]
  /\ _listCache = NullList
  /\ _listPromise = NoPromise
  /\ ardbStorage = NoEntry
  /\ ardbPromises = <<>>
  /\ ardbCalls = <<>>
  /\ ardbGets = 0
  /\ prefetches = <<>>
  /\ now = 0
  /\ useLocalStorage = TRUE
  /\ localStorage = [k \in DatasetKeys |-> NoEntry]
  /\ memoryStore = [k \in DatasetKeys |-> NoEntry]
  /\ calls = <<>>
  /\ lastCall = [key |-> Null, outcome |-> "none", fromCache |-> FALSE]
  /\ _index = <<>>
  /\ _state = "idle"
  /\ _error = Null
  /\ _buildPromise = NoPromise
  /\ builds = <<>>
  /\ settled = [build |-> FALSE]
  /\ returned = [kind |-> "none"]
  /\ searched = [called |-> FALSE]

NextBucket ==
  \E itemType \in ItemTypes :
    GetBucket(itemType)
    /\ UNCHANGED <<indexVars, cacheVars, ardbVars, xrefVars, prefetches, routerVars, _detailCache, render>>

\* getBucket called over and over in one session.
SpecBucket == InitBucket /\ [][NextBucket]_vars

(***************************************************************************)
(* fetchTraders: the envelope of /traders and what the fetcher makes of it *)
(***************************************************************************)

MaxInventory == 2
MaxTraderCalls == 2

TraderNames == {"Apollo", "Celeste"}
TraderItems == {[id |-> "bandage"], [id |-> "battery"]}

\* The record lists a trader can have.
Inventories == UNION {[1..n -> TraderItems] : n \in 0..MaxInventory}

\* JavaScript values a data field can hold: absent, null, an object keyed
\* by trader name, a list of records.
Undefined == [type |-> "undefined"]
JsNull == [type |-> "null"]
JsObject(value) == [type |-> "object", value |-> value]
JsArray(value) == [type |-> "array", value |-> value]
EmptyObject == JsObject(<<>>)

TraderMaps == UNION {[names -> Inventories] : names \in SUBSET TraderNames}

\* What fetchUrl returns for /traders on a 2xx response: null for a body
\* that is the JSON null, else the envelope with its data field.
TraderEnvelopes ==
  {[isNull |-> TRUE]}
    \cup {[isNull |-> FALSE, data |-> d] :
            d \in {Undefined, JsNull}
                    \cup {JsObject(m) : m \in TraderMaps}
                    \cup {JsArray(l) : l \in Inventories}}

\* typeof raw.data === 'object'
typeofObject(v) == v.type \in {"null", "object", "array"}

\* Array.isArray(raw.data)
isArray(v) == v.type = "array"

\* raw?.data ?? {}
dataOrEmpty(raw) ==
  IF raw.isNull THEN EmptyObject
  ELSE IF raw.data.type \in {"undefined", "null"} THEN EmptyObject ELSE raw.data

tradersData_NullIsNotObject(raw) ==
  IF ~raw.isNull /\ raw.data.type = "object" THEN raw.data ELSE dataOrEmpty(raw)

\* The data of the fetcher of fetchTraders.
tradersData(raw) ==
  IF ~raw.isNull /\ typeofObject(raw.data) /\ ~isArray(raw.data)
  THEN raw.data
  ELSE dataOrEmpty(raw)

\* Object.values(data) throws a TypeError on null and undefined.
objectValuesThrows(data) == data.type \in {"null", "undefined"}

\* fetchUrl returns raw to the fetcher of fetchTraders: the fetcher throws
\* in counting the records, or returns its data, which cachedFetch writes
\* to the store and resolves with.
TradersResponse(c, raw, setItem) ==
  LET data == tradersData(raw)
  IN  /\ calls[c].phase = "fetching"
      /\ calls[c].key = "traders"
      /\ calls' = [calls EXCEPT ![c] = Settled]
      /\ IF objectValuesThrows(data)
         THEN /\ lastCall' = [key |-> "traders",
                              outcome |-> "rejected", fromCache |-> FALSE,
                              response |-> [kind |-> "ok", status |-> 200],
                              raw |-> raw,
                              error |-> [name |-> "TypeError"]]
              /\ UNCHANGED <<localStorage, memoryStore>>
         ELSE /\ lastCall' = [key |-> "traders",
                              outcome |-> "resolved", fromCache |-> FALSE,
                              response |-> [kind |-> "ok", status |-> 200],
                              raw |-> raw,
                              ageMs |-> 0, data |-> data]
              /\ WriteStore("traders", data, TTL("traders"), setItem)
      /\ UNCHANGED <<now, useLocalStorage>>

InitTraders ==
  /\ hash = "#/"
  /\ detailActive = FALSE
  /\ content = [kind |-> "empty"]
  /\ routes = <<>>
  /\ useLocalStorage \in BOOLEAN
  /\ applied = [fn |-> "none"]
  /\ _crossRef = NullMap
  /\ _crossRefPromise = NoPromise
  /\ crossRefCalls = <<>>
  /\ _detailCache = <<>>
  /\ render = [phase |-> "none"]
  /\ _loggedUncategorized = {}
  /\ consoleLog = <<>>
  /\ _listCache = NullList
  /\ _listPromise = NoPromise
  /\ ardbStorage = NoEntry
  /\ ardbPromises = <<>>
  /\ ardbCalls = <<>>
  /\ ardbGets = 0
  /\ prefetches = <<>>
  /\ now = 0
  /\ localStorage = [k \in DatasetKeys |-> NoEntry]
  /\ memoryStore = [k \in DatasetKeys |-> NoEntry]
  /\ calls = <<>>
  /\ lastCall = [key |-> Null, outcome |-> "none", fromCache |-> FALSE]
  /\ _index = <<>>
  /\ _state = "idle"
  /\ _error = Null
  /\ _buildPromise = NoPromise
  /\ builds = <<>>
  /\ settled = [build |-> FALSE]
  /\ returned = [kind |-> "none"]
  /\ searched = [called |-> FALSE]

NextTraders ==
  \/ \E forceRefresh \in BOOLEAN :
       /\ Len(calls) < MaxTraderCalls
       /\ FetchDataset("traders", forceRefresh)
       /\ UNCHANGED <<indexVars, ardbVars, restVars>>
  \/ \E c \in 1..Len(calls), response \in FailedResponses :
       ResponseFails(c, response) /\ UNCHANGED <<indexVars, ardbVars, restVars>>
  \/ \E c \in 1..Len(calls), raw \in TraderEnvelopes, setItem \in SetItemOutcomes :
       TradersResponse(c, raw, setItem) /\ UNCHANGED <<indexVars, ardbVars, restVars>>

\* fetchTraders called over and over, each envelope the upstream can send.
SpecTraders == InitTraders /\ [][NextTraders]_vars

(***************************************************************************)
(* router.js: handleRoute on hashchange, the renderers writing the page    *)
(***************************************************************************)

MaxRoutes == 3

\* Hashes that ROUTE_RE matches, hashes that LIST_RE matches, and one that
\* neither matches (the landing page).
DetailHashes == {"#/item/anvil", "#/trader/Apollo"}
ListHashes == {"#/items"}
Hashes == DetailHashes \cup ListHashes \cup {"#/"}

\* detailMatch || listMatch
matchesRoute(h) == h \in DetailHashes \cup ListHashes

\* What #detailContent holds: the loading state handleRoute writes, the page
\* a renderer writes, the error handleRoute writes in its catch.
Loading(h) == [kind |-> "loading", hash |-> h]
Page(h) == [kind |-> "page", hash |-> h]
Failed(h) == [kind |-> "error", hash |-> h]

\* A handleRoute run awaiting its renderer, and one that is over.
Rendering(h) == [hash |-> h, phase |-> "rendering"]
Rendered(h) == [hash |-> h, phase |-> "settled"]

\* The user navigates: hashchange fires and handleRoute runs up to its
\* await, or to its return when no route matches.
HashChange(h) ==
  /\ h # hash
  /\ Len(routes) < MaxRoutes
  /\ hash' = h
  /\ detailActive' = matchesRoute(h)
  /\ IF matchesRoute(h)
     THEN /\ content' = Loading(h)
          /\ routes' = Append(routes, Rendering(h))
     ELSE UNCHANGED <<content, routes>>

\* The renderer of run r gets its data and writes its page into the
\* container it was handed.
RendererResolves(r) ==
  /\ routes[r].phase = "rendering"
  /\ content' = Page(routes[r].hash)
  /\ routes' = [routes EXCEPT ![r] = Rendered(routes[r].hash)]
  /\ UNCHANGED <<hash, detailActive>>

\* The renderer of run r throws: the catch of handleRoute writes the error.
RendererRejects(r) ==
  /\ routes[r].phase = "rendering"
  /\ content' = Failed(routes[r].hash)
  /\ routes' = [routes EXCEPT ![r] = Rendered(routes[r].hash)]
  /\ UNCHANGED <<hash, detailActive>>

\* initRouter has run handleRoute on the hash the page was loaded with.
InitRouter ==
  /\ hash \in Hashes
  /\ detailActive = matchesRoute(hash)
  /\ content = IF matchesRoute(hash) THEN Loading(hash) ELSE [kind |-> "empty"]
  /\ routes = IF matchesRoute(hash) THEN <<Rendering(hash)>> ELSE <<>>
  /\ applied = [fn |-> "none"]
  /\ _crossRef = NullMap
  /\ _crossRefPromise = NoPromise
  /\ crossRefCalls = <<>>
  /\ _detailCache = <<>>
  /\ render = [phase |-> "none"]
  /\ _loggedUncategorized = {}
  /\ consoleLog = <<>>
  /\ _listCache = NullList
  /\ _listPromise = NoPromise
  /\ ardbStorage = NoEntry
  /\ ardbPromises = <<>>
  /\ ardbCalls = <<>>
  /\ ardbGets = 0
  /\ prefetches = <<>>
  /\ now = 0
  /\ useLocalStorage = TRUE
  /\ localStorage = [k \in DatasetKeys |-> NoEntry]
  /\ memoryStore = [k \in DatasetKeys |-> NoEntry]
  /\ calls = <<>>
  /\ lastCall = [key |-> Null, outcome |-> "none", fromCache |-> FALSE]
  /\ _index = <<>>
  /\ _state = "idle"
  /\ _error = Null
  /\ _buildPromise = NoPromise
  /\ builds = <<>>
  /\ settled = [build |-> FALSE]
  /\ returned = [kind |-> "none"]
  /\ searched = [called |-> FALSE]

NextRouter ==
  \/ \E h \in Hashes :
       HashChange(h)
       /\ UNCHANGED <<indexVars, cacheVars, ardbVars, xrefVars, prefetches, pageVars, applied>>
  \/ \E r \in 1..Len(routes) :
       RendererResolves(r)
       /\ UNCHANGED <<indexVars, cacheVars, ardbVars, xrefVars, prefetches, pageVars, applied>>
  \/ \E r \in 1..Len(routes) :
       RendererRejects(r)
       /\ UNCHANGED <<indexVars, cacheVars, ardbVars, xrefVars, prefetches, pageVars, applied>>

\* Navigation while renderers are waiting on their data.
SpecRouter == InitRouter /\ [][NextRouter]_vars

(***************************************************************************)
(* Item links: the href the pages write and where the router takes it      *)
(***************************************************************************)

\* Characters encodeURIComponent leaves as they are, in the characters of
\* the model.
Unreserved == SlugChars \cup {"-", ".", "A", "B", "I", "M", "R", "V"}

\* encodeURIComponent(s) from the i-th character on: every other character
\* is escaped, the escape being held as "%" and the character.
RECURSIVE encodeFrom(_, _)
encodeFrom(s, i) ==
  IF i > Len(s) THEN <<>>
  ELSE (IF s[i] \in Unreserved THEN <<s[i]>> ELSE <<"%", s[i]>>) \o encodeFrom(s, i + 1)

encodeURIComponent(s) == encodeFrom(s, 1)

\* decodeURIComponent(s) from the i-th character on
RECURSIVE decodeFrom(_, _)
decodeFrom(s, i) ==
  IF i > Len(s) THEN <<>>
  ELSE IF s[i] = "%" /\ i < Len(s) THEN <<s[i + 1]>> \o decodeFrom(s, i + 2)
  ELSE <<s[i]>> \o decodeFrom(s, i + 1)

decodeURIComponent(s) == decodeFrom(s, 1)

\* The part of the href after "#/item/": listPages.js line 67 and 501,
\* itemPage.js line 30, traderPage.js line 35.
itemHref(item) == encodeURIComponent(groupKey(item))

\* ROUTE_RE on "#/item/" followed by rawId: (.+) wants one character at
\* least.
matchesRouteRe(rawId) == Len(rawId) >= 1

\* The fetched list with an item whose name has no letter or digit of
\* [a-z0-9] in it.
LinkedItems == FetchedItems \cup {Item(<<"??">>, "Misc")}

RECURSIVE LinkedListsOf(_)
LinkedListsOf(n) ==
  IF n = 0 THEN { <<>> }
  ELSE LinkedListsOf(n - 1) \cup
       { Append(l, item) : l \in {x \in LinkedListsOf(n - 1) : Len(x) = n - 1},
                           item \in LinkedItems }

LinkedLists == LinkedListsOf(MaxItems)

\* The link of the i-th item is followed: handleRoute matches the hash and,
\* on a match, renderItemGroup takes the group of the decoded id; with no
\* match the landing page is shown.
FollowItemLink(i) ==
  /\ applied.fn = "itemLinks"
  /\ applied.step = "listed"
  /\ i \in 1..Len(applied.items)
  /\ LET href    == itemHref(applied.items[i])
         matched == matchesRouteRe(href)
         slug    == decodeURIComponent(href)
     IN  applied' = [applied EXCEPT !.step = "routed", !.i = i, !.href = href,
                                    !.matched = matched,
                                    !.slug = IF matched THEN slug ELSE <<>>,
                                    !.group = IF matched
                                              THEN itemGroupOf(applied.items, slug)
                                              ELSE <<>>]

InitLinks ==
  /\ applied \in { [fn |-> "itemLinks", items |-> items, step |-> "listed",
                     i |-> 0, href |-> <<>>, matched |-> FALSE, slug |-> <<>>,
                     group |-> <<>>] :
                    items \in LinkedLists }
  /\ hash = "#/"
  /\ detailActive = FALSE
  /\ content = [kind |-> "empty"]
  /\ routes = <<>>
  /\ _crossRef = NullMap
  /\ _crossRefPromise = NoPromise
  /\ crossRefCalls = <<>>
  /\ _detailCache = <<>>
  /\ render = [phase |-> "none"]
  /\ _loggedUncategorized = {}
  /\ consoleLog = <<>>
  /\ _listCache = NullList
  /\ _listPromise = NoPromise
  /\ ardbStorage = NoEntry
  /\ ardbPromises = <<>>
  /\ ardbCalls = <<>>
  /\ ardbGets = 0
  /\ prefetches = <<>>
  /\ now = 0
  /\ useLocalStorage = TRUE
  /\ localStorage = [k \in DatasetKeys |-> NoEntry]
  /\ memoryStore = [k \in DatasetKeys |-> NoEntry]
  /\ calls = <<>>
  /\ lastCall = [key |-> Null, outcome |-> "none", fromCache |-> FALSE]
  /\ _index = <<>>
  /\ _state = "idle"
  /\ _error = Null
  /\ _buildPromise = NoPromise
  /\ builds = <<>>
  /\ settled = [build |-> FALSE]
  /\ returned = [kind |-> "none"]
  /\ searched = [called |-> FALSE]

NextLinks ==
  \E i \in 1..MaxItems :
    FollowItemLink(i)
    /\ UNCHANGED <<indexVars, cacheVars, ardbVars, xrefVars, prefetches, routerVars, pageVars>>

\* A list of items is shown and the link of one of them is followed.
SpecLinks == InitLinks /\ [][NextLinks]_vars

(***************************************************************************)
(* Properties                                                              *)
(***************************************************************************)

\* ---------------------------------------------------------------------------
\* MetaForge fetch service
\* ---------------------------------------------------------------------------

\* The entry the cache holds for key: the one in the store in use or, when
\* that store has none, the one a write redirected to the fallback map.
HeldEntry(key) == IF readStore(key).present THEN readStore(key) ELSE memoryStore[key]

\* The cache holds an entry for key whose age is not greater than its ttl.
FreshEntry(key) ==
  /\ HeldEntry(key).present
  /\ now - HeldEntry(key).cachedAt <= HeldEntry(key).ttl

\* The calls to the dataset key that have a request in flight and were made
\* without forceRefresh.
InFlight(key) ==
  {c \in 1..Len(calls) : /\ calls[c].phase = "fetching"
                         /\ calls[c].key = key
                         /\ ~calls[c].forceRefresh}

\* C1: a dataset fetch called with forceRefresh = false, when the cache holds
\* an entry for the dataset whose age (now - cachedAt) is not greater than its
\* ttl, returns that entry's data and issues no network request.
C1_FreshHitNoRequest ==
  [][\A key \in DatasetKeys :
       (FreshEntry(key) /\ FetchDataset(key, FALSE)) =>
         /\ calls' = Append(calls, Settled)
         /\ lastCall'.outcome = "resolved"
         /\ lastCall'.fromCache
         /\ lastCall'.data = HeldEntry(key).data
         /\ localStorage' = localStorage
         /\ memoryStore' = memoryStore]_vars

\* A fetch was answered from an entry exactly as old as its ttl.
C1_Witness ==
  /\ lastCall.outcome = "resolved"
  /\ lastCall.fromCache
  /\ lastCall.ageMs = TTL(lastCall.key)
  /\ Len(lastCall.data) > 0

\* C2: calls to the same dataset fetch issued on a cold or stale cache before
\* the first one resolves issue one network request sequence for the dataset
\* between them: no dataset has two unforced calls fetching at once.
C2_OneRequestSequence ==
  \A key \in DatasetKeys : Cardinality(InFlight(key)) <= 1

\* Two unforced calls to one dataset each have their own request in flight.
C2_Witness ==
  \E key \in DatasetKeys : Cardinality(InFlight(key)) = 2

\* list is the data arrays of pages, in page order, each in its own order:
\* every record of every page once, at its place, and nothing else.
C11_IsConcat(list, pages) ==
  LET len(p) == IF pages[p].hasData THEN Len(pages[p].data) ELSE 0
      off[p \in 0..Len(pages)] == IF p = 0 THEN 0 ELSE off[p - 1] + len(p)
  IN  /\ Len(list) = off[Len(pages)]
      /\ \A p \in 1..Len(pages) : \A i \in 1..len(p) :
           list[off[p - 1] + i] = pages[p].data[i]

\* Three pages of 100, 100 and 27 records, each declaring three pages.
C11_ExamplePages ==
  [p \in 1..3 |->
     Envelope(TRUE, [i \in 1..(IF p = 3 THEN 27 ELSE 100) |-> [call |-> 0, page |-> p, i |-> i]], 3)]

\* C11: a paginated fetch whose first page declares N pages resolves with the
\* data arrays of pages 1..N concatenated in page order, the order inside a
\* page kept, no record dropped or repeated; pages of 100, 100 and 27
\* records give one list of 227.
C11_PagesConcatenated ==
  /\ (lastCall.outcome = "resolved" /\ ~lastCall.fromCache /\ lastCall.key \in Paginated)
       => /\ lastCall.totalPages >= 1 => Len(lastCall.served) = lastCall.totalPages
          /\ C11_IsConcat(lastCall.data, lastCall.served)
  /\ Len(fetchAllPages(C11_ExamplePages)) = 227
  /\ C11_IsConcat(fetchAllPages(C11_ExamplePages), C11_ExamplePages)

\* A fetch of two pages, both with data, resolved with their three records.
C11_Witness ==
  /\ lastCall.outcome = "resolved" /\ ~lastCall.fromCache
  /\ lastCall.key \in Paginated
  /\ lastCall.totalPages = 2
  /\ \A p \in 1..2 : lastCall.served[p].hasData
  /\ Len(lastCall.data) = PageLen(1) + PageLen(2)

\* C12: prefetchAll never rejects; it resolves with {ok, failed} in which
\* each of the five dataset keys appears exactly once, in ok exactly when its
\* fetch fulfilled, otherwise in failed together with that fetch's error.
C12_PrefetchNeverRejects ==
  \A p \in 1..Len(prefetches) :
    /\ prefetches[p].status \in {"pending", "resolved"}
    /\ prefetches[p].status = "resolved" =>
         LET v == prefetches[p].value
             r == prefetches[p].results
         IN  /\ Len(v.ok) + Len(v.failed) = Cardinality(DatasetKeys)
             /\ \A i \in 1..Len(PrefetchEndpoints) :
                  LET key == PrefetchEndpoints[i]
                      inOk     == {k \in 1..Len(v.ok) : v.ok[k] = key}
                      inFailed == {k \in 1..Len(v.failed) : v.failed[k].endpoint = key}
                  IN  /\ key \in DatasetKeys
                      /\ Cardinality(inOk) + Cardinality(inFailed) = 1
                      /\ (inOk # {}) <=> (r[i].status = "fulfilled")
                      /\ \A k \in inFailed : v.failed[k].error = r[i].reason

\* A prefetch resolved with arcs and traders failed and the other three ok.
C12_Witness ==
  \E p \in 1..Len(prefetches) :
    /\ prefetches[p].status = "resolved"
    /\ prefetches[p].value.ok = <<"items", "quests", "eventsSchedule">>
    /\ Len(prefetches[p].value.failed) = 2
    /\ prefetches[p].value.failed[1].endpoint = "arcs"
    /\ prefetches[p].value.failed[2].error = MetaForgeError(500, "traders")

\* C13: every failure of a MetaForge fetch is a MetaForgeError: status 0 when
\* no response was received, the HTTP status when the response is not 2xx or
\* its body is no JSON; retryable exactly when the status is 0 or 500, so
\* never for an unparseable 2xx body.
C13_FailuresAreMetaForgeErrors ==
  lastCall.outcome = "rejected" =>
    /\ lastCall.error.name = "MetaForgeError"
    /\ lastCall.error.status =
         (IF lastCall.response.kind = "none" THEN 0 ELSE lastCall.response.status)
    /\ lastCall.error.retryable <=> (lastCall.error.status \in {0, 500})
    /\ lastCall.response.kind = "badjson" => ~lastCall.error.retryable

\* A fetch rejected on a 200 response whose body was no JSON: a
\* MetaForgeError with status 200, not retryable.
C13_Witness ==
  /\ lastCall.outcome = "rejected"
  /\ lastCall.response.kind = "badjson"
  /\ lastCall.error = [name |-> "MetaForgeError", status |-> 200,
                       endpoint |-> lastCall.key, retryable |-> FALSE]

\* Call c writes the entry of key in this step: its fetcher has resolved.
WritesStore(c, key) ==
  /\ calls[c].phase = "fetching"
  /\ calls[c].key = key
  /\ calls'[c] = Settled
  /\ lastCall'.outcome = "resolved"

\* C14: cache round trip.  A read right after write(key, data, ttl) returns
\* exactly data; an entry the cache holds is read back with its data while
\* its age is not greater than its ttl (an age equal to the ttl included)
\* and as absent once it is greater; an entry leaves the cache only by an
\* overwrite or clearCache.
C14_RoundTrip ==
  [][\A key \in DatasetKeys :
       /\ (\E c \in 1..Len(calls) : WritesStore(c, key))
            => (getCache(key))' = [hit |-> TRUE, data |-> lastCall'.data, ageMs |-> 0]
       /\ HeldEntry(key).present
            => /\ getCache(key).hit <=> (now - HeldEntry(key).cachedAt <= HeldEntry(key).ttl)
               /\ getCache(key).hit => getCache(key).data = HeldEntry(key).data
               /\ \/ (HeldEntry(key))' = HeldEntry(key)
                  \/ \E c \in 1..Len(calls) : WritesStore(c, key)
                  \/ ClearCacheKey(key)
                  \/ ClearCacheAll]_vars

\* An entry older than its ttl is still in the store and reads as absent.
C14_Witness ==
  \E key \in DatasetKeys :
    /\ readStore(key).present
    /\ now - readStore(key).cachedAt = readStore(key).ttl + 1
    /\ ~getCache(key).hit

\* C15: a cache write that fails for the storage quota is not surfaced: the
\* dataset fetch that made the write resolves with the data it has just
\* fetched.
C15_QuotaNotSurfaced ==
  [][\A c \in 1..Len(calls), hasData \in BOOLEAN, declared \in NoTotalPages..MaxPages :
       (ResponseOk(c, hasData, declared, "QuotaExceededError") /\ calls'[c] = Settled)
         => /\ lastCall'.outcome = "resolved"
            /\ ~lastCall'.fromCache
            /\ lastCall'.key = calls[c].key
            /\ hasData => Len(lastCall'.data) > 0
            /\ \A k \in 1..Len(lastCall'.data) : lastCall'.data[k].call = c]_vars

\* A fetch resolved with its data although the write met the quota: the
\* entry is in the fallback map and not in localStorage.
C15_Witness ==
  /\ useLocalStorage
  /\ lastCall.outcome = "resolved" /\ ~lastCall.fromCache
  /\ Len(lastCall.data) > 0
  /\ ~localStorage[lastCall.key].present
  /\ memoryStore[lastCall.key].present
  /\ memoryStore[lastCall.key].data = lastCall.data

\* ---------------------------------------------------------------------------
\* ARDB items list
\* ---------------------------------------------------------------------------

\* The unforced calls that were handed promise p.
SharersOf(p) ==
  {c \in 1..Len(ardbCalls) : /\ ~ardbCalls[c].forceRefresh
                             /\ ardbCalls[c].handed = "promise"
                             /\ ardbCalls[c].promise = p}

\* C3: a fetchArdbItems() call without forceRefresh, made with no cached list
\* while the GET of an earlier call has not settled, issues no GET of its own
\* and is handed the promise of the one in flight, so that all such callers
\* receive the same list; and the unforced calls never have two GETs pending.
C3_SharedGet ==
  [][/\ (/\ FetchArdbItems(FALSE)
         /\ _listCache.null
         /\ _listPromise # NoPromise
         /\ ardbPromises[_listPromise].status = "pending")
        => /\ ardbGets' = ardbGets
           /\ ardbPromises' = ardbPromises
           /\ ardbCalls'[Len(ardbCalls')].handed = "promise"
           /\ ardbCalls'[Len(ardbCalls')].promise = _listPromise
     /\ Cardinality({p \in 1..Len(ardbPromises') :
                       /\ ardbPromises'[p].status = "pending"
                       /\ ardbPromises'[p].get
                       /\ ~ardbPromises'[p].forceRefresh}) <= 1]_vars

\* Three unforced calls were handed the promise of the one GET, still pending.
C3_Witness ==
  \E p \in 1..Len(ardbPromises) :
    /\ ardbPromises[p].status = "pending"
    /\ ardbPromises[p].get
    /\ Cardinality(SharersOf(p)) = 3
    /\ ardbGets = 1

\* C16: the moment the GET of a fetchArdbItems call settles, fulfilled or
\* rejected, _listPromise no longer holds its promise; and a call without
\* forceRefresh is never handed a promise that had already rejected: it gets
\* the list or a promise of its own.
C16_ClearedOnSettle ==
  [][/\ \A p \in 1..Len(ardbPromises) :
          (ardbPromises[p].status = "pending" /\ ardbPromises'[p].status # "pending")
            => _listPromise' # p
     /\ FetchArdbItems(FALSE)
          => ardbCalls'[Len(ardbCalls')].was # "rejected"]_vars

\* A GET has rejected and a call without forceRefresh was made after it.
C16_Witness ==
  \E c \in 1..Len(ardbCalls), p \in 1..Len(ardbPromises) :
    /\ ardbPromises[p].status = "rejected"
    /\ ~ardbCalls[c].forceRefresh
    /\ ardbCalls[c].handed = "promise"
    /\ ardbCalls[c].was # "pending"
    /\ ardbCalls[c].promise >= p

\* The calls of buildArdbCrossRef that started a build.
CrossRefBuilds == {b \in 1..Len(crossRefCalls) : crossRefCalls[b].handed = "build"}

\* C17: buildArdbCrossRef builds the map at most once: at most one call ever
\* starts a build and the map, once set, never changes; a call made while
\* the build is in flight is handed the promise of that build, and a call
\* made after it completed is handed the map that was built; neither of the
\* two calls fetchArdbItems or issues a GET.
C17_BuiltOnce ==
  [][/\ Cardinality(CrossRefBuilds') <= 1
     /\ ~_crossRef.null => _crossRef' = _crossRef
     /\ (/\ BuildArdbCrossRef
         /\ _crossRef.null
         /\ _crossRefPromise # NoPromise
         /\ crossRefCalls[_crossRefPromise].status = "pending")
          => /\ crossRefCalls'[Len(crossRefCalls')].handed = "promise"
             /\ crossRefCalls'[Len(crossRefCalls')].promise = _crossRefPromise
             /\ _crossRefPromise \in CrossRefBuilds
             /\ UNCHANGED <<ardbVars, _crossRef, _crossRefPromise>>
     /\ (/\ BuildArdbCrossRef
         /\ \E b \in CrossRefBuilds : crossRefCalls[b].status = "fulfilled")
          => /\ crossRefCalls'[Len(crossRefCalls')].handed = "map"
             /\ crossRefCalls'[Len(crossRefCalls')].map = _crossRef
             /\ ~_crossRef.null
             /\ UNCHANGED <<ardbVars, _crossRef, _crossRefPromise>>]_vars

\* One build ran; a call made while it was in flight was handed its promise,
\* a call made after it was handed the map; one GET was issued in all.
C17_Witness ==
  /\ Len(crossRefCalls) = 3
  /\ crossRefCalls[1].handed = "build"
  /\ crossRefCalls[1].status = "fulfilled"
  /\ crossRefCalls[2].handed = "promise"
  /\ crossRefCalls[3].handed = "map"
  /\ DOMAIN crossRefCalls[3].map.map # {}
  /\ ardbGets = 1

\* The places of the records of list whose trimmed, lower-cased name equals
\* the trimmed, lower-cased name n.
C18_Matches(list, n) ==
  {i \in 1..Len(list) : toLowerCase(trim(list[i].name)) = toLowerCase(trim(n))}

\* The last record of list that matches n, or null when none does.
C18_Expected(list, n) ==
  IF C18_Matches(list, n) = {} THEN NotFound
  ELSE Found(list[CHOOSE i \in C18_Matches(list, n) :
                    \A j \in C18_Matches(list, n) : j <= i])

\* C18 as stated: for every list and every name n, lookupArdbByName(n, map
\* built from the list) returns the last record of the list whose trimmed,
\* lower-cased name equals the trimmed, lower-cased n, and null when no
\* record matches exactly.
C18_LastExactMatch ==
  (applied.fn = "lookupArdbByName" /\ applied.done /\ applied.built)
    => applied.result = C18_Expected(applied.list, applied.name)

\* C18, amended: the same for every name n that is not blank (not empty
\* after trimming); a record whose name is a prefix of n, or which n is a
\* prefix of, is not returned.
C18_LastExactMatchNotBlank ==
  (/\ applied.fn = "lookupArdbByName" /\ applied.done /\ applied.built
   /\ trim(applied.name) # <<>>)
    => /\ applied.result = C18_Expected(applied.list, applied.name)
       /\ applied.result.found
            => lookupKey(applied.result.item.name) = lookupKey(applied.name)

\* Two records of the list match the name in different spellings and the
\* second was returned.
C18_Witness ==
  /\ applied.fn = "lookupArdbByName" /\ applied.done /\ applied.built
  /\ trim(applied.name) # <<>>
  /\ Cardinality(C18_Matches(applied.list, applied.name)) = 2
  /\ applied.list[1].name # applied.list[2].name
  /\ applied.name # applied.list[2].name
  /\ applied.result = Found(applied.list[2])

\* The name is that of a record of the list the cross-reference was built
\* from, up to case and surrounding white space.
C19_CrossReferenced(name) ==
  /\ ~_crossRef.null
  /\ \E k \in 1..Len(RenderList) :
       lookupKey(RenderList[k].name) = lookupKey(name)

\* C19: in renderItemGroup a detail GET is issued only for members whose
\* name is cross-referenced, and no member that is cross-referenced waits
\* for another: all GETs of the group are issued before any is answered and
\* none later; the page is written only when every fetch has settled, with
\* each member carrying the detail fetched for it and the members whose
\* fetch failed or was not made carrying none; a failed GET leaves the other
\* members and the details attached so far as they are, and the call rejects
\* for no detail failure, only when fetchItems did.
C19_DetailFaultTolerant ==
  [][/\ render.phase \in {"details", "done"}
         => /\ \A i \in 1..Len(render.members) :
                 LET m == render.members[i]
                 IN  /\ m.get => C19_CrossReferenced(m.name)
                     /\ C19_CrossReferenced(m.name) => m.status # "skipped"
                     /\ m.status # "skipped" => m.get \/ m.status = "fulfilled"
                     /\ render'.members[i].get = m.get
            /\ render.promise = "rejected"
                 => /\ render.cause = "fetchItems"
                    /\ render.members = <<>>
            /\ render.phase = "done" /\ render.promise = "fulfilled" /\ render.members # <<>>
                 => /\ render.container = "page"
                    /\ Len(render.page) = Len(render.members)
                    /\ \A i \in 1..Len(render.members) :
                         /\ render.members[i].status # "pending"
                         /\ render.page[i].id = render.members[i].id
                         /\ render.page[i].ardbDetail =
                              IF render.members[i].status = "fulfilled"
                              THEN Detail(render.members[i].ardbId)
                              ELSE NoDetail
     /\ \A i \in 1..MaxGroup :
          (render.phase = "details" /\ i <= Len(render.members) /\ DetailFails(i))
            => /\ render'.promise = "pending"
               /\ render'.ardbDetailMap = render.ardbDetailMap
               /\ \A j \in 1..Len(render.members) :
                    j # i => render'.members[j] = render.members[j]]_vars

\* The page of a group of two was written: the GET of one member failed and
\* the detail the GET of the other fetched is attached to that member.
C19_Witness ==
  /\ render.phase = "done"
  /\ render.container = "page"
  /\ render.promise = "fulfilled"
  /\ \E i, j \in 1..Len(render.members) :
       /\ render.members[i].status = "failed"
       /\ render.members[j].status = "fulfilled"
       /\ render.members[j].get
       /\ render.page[j].ardbDetail = Detail(render.members[j].ardbId)
       /\ ~render.page[i].ardbDetail.has

\* C20: normalizeBaseName is idempotent on every name built from a base word
\* followed by a sequence of tier tokens: applied to its own result it
\* returns that result.
C20_Idempotent ==
  (applied.fn = "normalizeBaseName" /\ applied.times = 2)
    => applied.twice = applied.once

\* normalizeBaseName was applied twice to a name with two tier tokens and
\* the first application had stripped both.
C20_Witness ==
  /\ applied.fn = "normalizeBaseName"
  /\ applied.times = 2
  /\ Len(applied.name) = 3
  /\ applied.once = <<BaseWord>>
  /\ applied.twice = <<BaseWord>>

\* C4: a buildIndex call made while a build is in flight, forced or not, is
\* handed that build's promise and starts no build; at most one build is in
\* flight at any moment.
C4_OneBuildInFlight ==
  [][ /\ Cardinality(PendingBuilds') <= 1
      /\ \A forceRefresh \in BOOLEAN :
           (PendingBuilds # {} /\ BuildIndex(forceRefresh))
             => /\ builds' = builds
                /\ returned'.kind = "promise"
                /\ returned'.promise \in PendingBuilds ]_vars

\* Two builds in flight at once.
C4_Witness == Cardinality(PendingBuilds) = 2

\* C5: the index state moves only idle -> loading, loading -> ready,
\* loading -> error, error -> loading, or to idle by clearIndex; from ready
\* to loading only by buildIndex({forceRefresh: true}), which has emptied
\* the index when its fetches start.
C5_Transitions ==
  [][ \/ _state' = _state
      \/ _state = "idle" /\ _state' = "loading"
      \/ _state = "loading" /\ _state' \in {"ready", "error"}
      \/ _state = "error" /\ _state' = "loading"
      \/ _state' = "idle" /\ ClearIndex
      \/ _state = "ready" /\ _state' = "loading" /\ BuildIndex(TRUE) /\ _index' = <<>> ]_vars

\* A build cleared while in flight has completed: the state is ready though
\* no build was started since the clear.
C5_Witness ==
  /\ _state = "ready"
  /\ _buildPromise = NoPromise
  /\ Len(builds) = 1

\* Queries tried in every reachable state of the index.
ProbeQueries ==
  UNION { [1..n -> {"a", "b", " "}] : n \in 0..2 } \cup { <<"A", "b", " ">>, <<"c", " ">> }

\* C6: whenever the state is 'ready' the index is the whole entry list of a
\* build that ran to completion (the one that completed last); while the
\* state is 'loading', search returns no entry whatever the index holds.
C6_ReadyIndexComplete ==
  /\ _state = "ready"
       => /\ settled.build
          /\ ~buildThrows(settled.results)
          /\ _index = buildEntries(settled.results)
  /\ _state = "loading"
       => \A q \in ProbeQueries : search(q, DefaultLimit, Null) = <<>>
  /\ (searched.called /\ searched.state = "loading") => searched.result = <<>>

\* A search made while the build was loading got nothing; the build has since
\* completed with two of its fetches rejected and its entry list is the index.
C6_Witness ==
  /\ _state = "ready"
  /\ settled.build
  /\ _index = buildEntries(settled.results)
  /\ Len(_index) = 2
  /\ searched.called /\ searched.state = "loading"
  /\ searched.query = <<"A", "b", " ">>
  /\ searched.result = <<>>

C7_Type(d) ==
  CASE d = "items" -> "Item" [] d = "arcs" -> "ARC" [] d = "quests" -> "Quest"
    [] d = "traders" -> "Trader"

C7_Name(d, record) == IF d = "traders" THEN record.key ELSE record.name

C7_Size(result) == IF result.status = "fulfilled" THEN Len(result.value) ELSE 0

\* The index holds the entries of the fulfilled datasets and nothing else.
C7_HoldsExactly(index, results) ==
  /\ Len(index) = C7_Size(results["items"]) + C7_Size(results["arcs"])
                    + C7_Size(results["quests"]) + C7_Size(results["traders"])
  /\ \A d \in DatasetSet :
       IF results[d].status = "fulfilled"
       THEN \A k \in 1..Len(results[d].value) :
              \E i \in 1..Len(index) :
                /\ index[i].type = C7_Type(d)
                /\ index[i].name = C7_Name(d, results[d].value[k])
       ELSE \A i \in 1..Len(index) : index[i].type # C7_Type(d)

\* C7: when a build's four fetches have settled, whichever of them rejected
\* (all four included) and the others having delivered their datasets, the
\* build promise resolves, the state becomes 'ready' and the index holds
\* exactly the entries of the fulfilled datasets.
C7_RejectedOmitted ==
  [][ \A b \in 1..Len(builds) :
        (builds[b].status = "pending" /\ builds'[b].status # "pending")
          => LET results == settled'.results
             IN  (\A d \in DatasetSet :
                    results[d].status = "fulfilled" => results[d].shape = "list")
                   => /\ builds'[b].status = "resolved"
                      /\ _state' = "ready"
                      /\ C7_HoldsExactly(_index', results) ]_vars

\* A build whose items and traders fetches rejected installed the arcs and
\* quests entries.
C7_Witness ==
  /\ _state = "ready"
  /\ settled.build
  /\ settled.results["items"].status = "rejected"
  /\ settled.results["traders"].status = "rejected"
  /\ settled.results["arcs"].status = "fulfilled"
  /\ settled.results["quests"].status = "fulfilled"
  /\ Len(_index) = 2

\* C8: in the states idle, loading and error search returns [] for every
\* query; in the state ready it returns [] for a query that is empty after
\* trimming.
C8_EmptyBeforeReady ==
  /\ \A q \in ProbeQueries, type \in {Null, "Item"} :
       (_state # "ready" \/ trim(q) = <<>>) => search(q, DefaultLimit, type) = <<>>
  /\ searched.called
       => ((searched.state # "ready" \/ trim(searched.query) = <<>>)
             => searched.result = <<>>)

\* A search for a name of the index, made in the state error, got nothing.
C8_Witness ==
  /\ _state = "error"
  /\ \E i \in 1..Len(_index) : _index[i].name = <<"A", "b">>
  /\ searched.called /\ searched.state = "error"
  /\ searched.query = <<"A", "b", " ">>
  /\ searched.result = <<>>

(***************************************************************************)
(* Properties of search() on a ready index                                 *)
(***************************************************************************)

\* The rank of a lower-cased name against a lower-cased query: 0 equal,
\* 1 prefix, 2 some word (a maximal run between spaces) has it as a prefix,
\* 3 substring, 4 no match.
C9_Tier(n, q) ==
  LET at(p) == p + Len(q) - 1 <= Len(n) /\ SubSeq(n, p, p + Len(q) - 1) = q
  IN  IF n = q THEN 0
      ELSE IF at(1) THEN 1
      ELSE IF \E p \in 1..Len(n) :
                /\ p = 1 \/ n[p - 1] = " "
                /\ at(p)
                /\ \A k \in 1..Len(q) : q[k] # " "
           THEN 2
      ELSE IF \E p \in 1..Len(n) : at(p) THEN 3
      ELSE 4

\* The ranked result: the matching entries of the pool by rank, then by
\* name, entries that compare equal in their index order, cut to limit.
C9_Expected(index, query, limit, type) ==
  LET q    == toLowerCase(trim(query))
      tier == [i \in 1..Len(index) |-> C9_Tier(toLowerCase(index[i].name), q)]
      M    == {i \in 1..Len(index) : (type = Null \/ index[i].type = type) /\ tier[i] < 4}
      before(j, i) ==
        \/ tier[j] < tier[i]
        \/ /\ tier[j] = tier[i]
           /\ \/ localeCompare(index[j].name, index[i].name) < 0
              \/ localeCompare(index[j].name, index[i].name) = 0 /\ j < i
      pos  == [i \in M |-> 1 + Cardinality({j \in M : before(j, i)})]
      n    == IF limit < Cardinality(M) THEN limit ELSE Cardinality(M)
  IN  [k \in 1..n |-> index[CHOOSE i \in M : pos[i] = k]]

C9_Names(entries) == [i \in 1..Len(entries) |-> entries[i].name]

\* C9: on a ready index, for a query of two or more characters after
\* trimming, search returns the entries (of the requested type, when a type
\* filter is given) whose lower-cased name matches the lower-cased query,
\* by rank (equal, prefix, word prefix, substring), then by name, cut to
\* limit; Tempest, Tempest Blueprint, Advanced Tempest Core come in that
\* order for the query tempest.
C9_RankedSearch ==
  searched.called =>
    /\ Len(trim(searched.query)) >= 2
         => searched.result =
              C9_Expected(_index, searched.query, searched.limit, searched.type)
    /\ ( /\ _index \in TempestIndexes
         /\ searched.query = <<"t", "e", "m", "p", "e", "s", "t">>
         /\ searched.limit = DefaultLimit
         /\ searched.type = Null )
         => C9_Names(searched.result) =
              <<Tempest.name, TempestBlueprint.name, AdvancedTempestCore.name>>

\* The query tempest against the three entries listed in the reverse order.
C9_Witness ==
  /\ _index = <<AdvancedTempestCore, TempestBlueprint, Tempest>>
  /\ searched.called
  /\ searched.query = <<"t", "e", "m", "p", "e", "s", "t">>
  /\ searched.limit = DefaultLimit
  /\ searched.result = <<Tempest, TempestBlueprint, AdvancedTempestCore>>

\* C10: on a ready index a query of fewer than two characters after
\* trimming returns [], also when an entry's name equals or contains it.
C10_ShortQueryEmpty ==
  (searched.called /\ searched.state = "ready" /\ Len(trim(searched.query)) < 2)
    => searched.result = <<>>

\* The query " A" against an index that holds the entry named "a".
C10_Witness ==
  /\ searched.called /\ searched.state = "ready"
  /\ searched.query = <<" ", "A">>
  /\ searched.type = Null
  /\ \E i \in 1..Len(_index) : _index[i].name = <<"a">>
  /\ searched.result = <<>>

\* ---------------------------------------------------------------------------
\* Tier order, grouping and representatives
\* ---------------------------------------------------------------------------

\* The kind of tier a name carries: none, a numbered tier (Roman numeral,
\* Mk. N or bare digits), or Blueprint/Recipe.
C21_Kind(name) ==
  IF getTierLabel(name) = Null THEN "none"
  ELSE IF getTierLabel(name) \in {"Blueprint", "Recipe"} THEN "print"
  ELSE "numbered"

\* The place of a numbered tier on the shared scale: I = Mk. 1 = 1.
C21_Scale(name) ==
  LET l == getTierLabel(name)
  IN  CASE l \in {"I", "1"} -> 1
        [] l = "II"  -> 2
        [] l \in {"III", "3", "Mk. 3"} -> 3
        [] l = "IV"  -> 4
        [] l = "V"   -> 5
        [] l = "10"  -> 10
        [] l = "mk.12" -> 12
        [] OTHER -> 0

\* C21: in a group ordered by sortItemsByTier every member without a tier
\* label comes before every member with one, every Blueprint or Recipe member
\* comes after every member with a numbered tier, and the numbered tiers are
\* in ascending order of one shared scale (I = Mk. 1 = 1).
C21_TierOrder ==
  (applied.fn = "sortItemsByTier" /\ applied.done)
    => \A i, j \in 1..Len(applied.result) :
         i < j =>
           LET a == applied.result[i].name
               b == applied.result[j].name
           IN  /\ C21_Kind(b) = "none" => C21_Kind(a) = "none"
               /\ C21_Kind(a) = "print" => C21_Kind(b) = "print"
               /\ (C21_Kind(a) = "numbered" /\ C21_Kind(b) = "numbered")
                    => C21_Scale(a) <= C21_Scale(b)

\* A group with a Blueprint, a Mk. member and a base member was sorted.
C21_Witness ==
  /\ applied.fn = "sortItemsByTier" /\ applied.done
  /\ Len(applied.result) = 3
  /\ \E i, j, k \in 1..3 :
       /\ C21_Kind(applied.items[i].name) = "none"
       /\ getTierLabel(applied.items[j].name) = "Blueprint"
       /\ getTierLabel(applied.items[k].name) = "Mk. 3"
  /\ C21_Kind(applied.result[1].name) = "none"

\* seq in reverse order
C22_Reverse(seq) == [i \in 1..Len(seq) |-> seq[Len(seq) + 1 - i]]

\* The names of a list of items, in its order.
C22_Names(items) == [i \in 1..Len(items) |-> items[i].name]

\* C22: two members of a sorted group that carry the same tier are in the
\* lexicographic order of their raw names, and the order of the members is
\* the same when the fetched list declares them in the opposite order.
C22_TiesByName ==
  (applied.fn = "sortItemsByTier" /\ applied.done)
    => /\ \A i, j \in 1..Len(applied.result) :
            (i < j /\ getTierLabel(applied.result[i].name) = getTierLabel(applied.result[j].name))
              => localeCompare(spell(applied.result[i].name), spell(applied.result[j].name)) <= 0
       /\ C22_Names(applied.result) = C22_Names(sortItemsByTier(C22_Reverse(applied.items)))

\* A group with two Blueprint members of different names was sorted.
C22_Witness ==
  /\ applied.fn = "sortItemsByTier" /\ applied.done
  /\ \E i, j \in 1..Len(applied.result) :
       /\ i < j
       /\ getTierLabel(applied.result[i].name) = "Blueprint"
       /\ getTierLabel(applied.result[j].name) = "Blueprint"
       /\ applied.result[i].name # applied.result[j].name

\* The key of an item: the slug of its normalised base name.
C23_Key(item) == nameToSlug(spell(normalizeBaseName(item.name)))

\* C23: grouping partitions the fetched list.  The groups have pairwise
\* different keys and none is empty; the members of a group are exactly the
\* items of the list with its key, whatever their item_type, so that every
\* item is in one group and in no other; and the group renderItemGroup takes
\* for the key of a group is that group.
C23_Partition ==
  (applied.fn = "groupItems" /\ applied.step # "fetched")
    => /\ \A g, h \in 1..Len(applied.groupMap) :
            g # h => applied.groupMap[g].slug # applied.groupMap[h].slug
       /\ \A g \in 1..Len(applied.groupMap) :
            /\ applied.groupMap[g].items # <<>>
            /\ applied.groupMap[g].items =
                 SelectSeq(applied.items, LAMBDA item : C23_Key(item) = applied.groupMap[g].slug)
       /\ \A i \in 1..Len(applied.items) :
            \E g \in 1..Len(applied.groupMap) : applied.groupMap[g].slug = C23_Key(applied.items[i])
       /\ applied.step = "page"
            => \A g \in 1..Len(applied.groupMap) :
                 applied.groupMap[g].slug = applied.slug
                   => applied.group = applied.groupMap[g].items

\* Three items made two groups, one of them of two items of different
\* item_type, and the page of that group was opened.
C23_Witness ==
  /\ applied.fn = "groupItems" /\ applied.step = "page"
  /\ Len(applied.items) = 3
  /\ Len(applied.groupMap) = 2
  /\ Len(applied.group) = 2
  /\ applied.group[1].item_type # applied.group[2].item_type
  /\ applied.group[1].name # applied.group[2].name

\* The item is a Blueprint or a Recipe.
C24_IsPrint(item) == item.item_type \in {"Blueprint", "Recipe"}

\* The places in the group of its members that are no Blueprint or Recipe.
C24_NonPrints(group) == {k \in 1..Len(group) : ~C24_IsPrint(group[k])}

\* The places the representative is chosen among.
C24_Candidates(group) ==
  IF C24_NonPrints(group) # {} THEN C24_NonPrints(group) ELSE 1..Len(group)

\* C24: the representative of a group is a member that is no Blueprint or
\* Recipe whenever the group has one; it has the highest tier rank among
\* those members and is the first declared of the members with that rank;
\* when every member is a Blueprint or Recipe it is one of them.
C24_Representative ==
  (applied.fn = "groupItems" /\ applied.step \in {"cards", "page"})
    => \A g \in 1..Len(applied.groupMap) :
         LET group == applied.groupMap[g].items
             highest == {k \in C24_Candidates(group) :
                           \A m \in C24_Candidates(group) :
                             tierIdx(group[m].name) <= tierIdx(group[k].name)}
         IN  /\ Len(applied.reps) = Len(applied.groupMap)
             /\ applied.reps[g] = group[CHOOSE k \in highest : \A m \in highest : k <= m]
             /\ C24_NonPrints(group) # {} => ~C24_IsPrint(applied.reps[g])

\* A group of a Blueprint and two other members of the same, highest rank:
\* the one of the two declared first is the representative.
C24_Witness ==
  /\ applied.fn = "groupItems" /\ applied.step = "cards"
  /\ Len(applied.groupMap) = 1
  /\ Len(applied.items) = 3
  /\ C24_IsPrint(applied.items[1])
  /\ ~C24_IsPrint(applied.items[2]) /\ ~C24_IsPrint(applied.items[3])
  /\ applied.items[2].name # applied.items[3].name
  /\ tierIdx(applied.items[2].name) = tierIdx(applied.items[3].name)
  /\ tierIdx(applied.items[2].name) > 0
  /\ applied.reps[1] = applied.items[2]

\* ---------------------------------------------------------------------------
\* Buckets
\* ---------------------------------------------------------------------------

\* The label is not empty and is, trimmed and in lower case, no key of
\* BUCKET_MAP.
C25_Unmapped(label) ==
  /\ label # <<>>
  /\ \A e \in 1..Len(BUCKET_MAP) : BUCKET_MAP[e][1] # trim(toLowerCase(label))

\* C25: over the getBucket calls of a session every label that maps to no
\* bucket and was looked up has exactly one log entry, however often it was
\* looked up; mapped labels and the empty label have none; and every lookup
\* of an unmapped label returned null.
C25_LoggedOnce ==
  applied.fn = "getBucket"
    => /\ \A label \in ItemTypes :
            Cardinality({k \in 1..Len(consoleLog) : consoleLog[k] = label}) =
              IF /\ C25_Unmapped(label)
                 /\ \E k \in 1..Len(applied.lookups) : applied.lookups[k].itemType = label
              THEN 1 ELSE 0
       /\ \A k \in 1..Len(applied.lookups) :
            /\ C25_Unmapped(applied.lookups[k].itemType) => applied.lookups[k].bucket = Null
            /\ (applied.lookups[k].itemType # <<>> /\ ~C25_Unmapped(applied.lookups[k].itemType))
                 => applied.lookups[k].bucket \in {"Attachments", "Blueprints"}

\* The same unmapped label was looked up three times and logged once.
C25_Witness ==
  /\ applied.fn = "getBucket"
  /\ Len(applied.lookups) = 3
  /\ \A k \in 1..3 : applied.lookups[k].itemType = <<"A", "b">>
  /\ consoleLog = << <<"A", "b">> >>

\* C26: fetchTraders always resolves to a map keyed by trader name, never to
\* a flat list and never to null (and it never rejects), whichever envelope
\* a 2xx response carries and whether the data comes from upstream or from
\* the cache.
C26_Traders2xx ==
  /\ lastCall.outcome # "none"
  /\ lastCall.key = "traders"
  /\ (lastCall.fromCache \/ lastCall.response.kind = "ok")

C26_KeyedMap ==
  C26_Traders2xx
    => /\ lastCall.outcome = "resolved"
       /\ lastCall.data.type = "object"
       /\ DOMAIN lastCall.data.value \subseteq TraderNames

\* An envelope whose data is null, or a list, has been answered.
C26_Witness ==
  /\ C26_Traders2xx
  /\ ~lastCall.fromCache
  /\ ~lastCall.raw.isNull
  /\ lastCall.raw.data.type \in {"null", "array"}

\* C27: the user went from route A to route B while A's renderer was still
\* waiting; once both renderers have settled, in whichever order, the detail
\* container shows B's content (A's result is discarded).
C27_BothSettled ==
  /\ Len(routes) = 2
  /\ routes[1].hash # routes[2].hash
  /\ \A r \in 1..2 : routes[r].phase = "settled"
  /\ hash = routes[2].hash

C27_ShowsCurrentRoute ==
  C27_BothSettled => content.kind \in {"page", "error"} /\ content.hash = hash

\* Two routes were opened one after the other and both renderers settled.
C27_Witness ==
  /\ C27_BothSettled
  /\ content.kind = "page"

\* C28: within one paginated fetch the page requests are strictly
\* sequential: at most one request of the fetch is in flight, and the one in
\* flight is for the page after the last page answered, so page k+1 is
\* requested only once the response for page k has come.
C28_Sequential ==
  \A c \in 1..Len(calls) :
    calls[c].phase = "fetching"
      => /\ Cardinality(calls[c].inFlight) <= 1
         /\ calls[c].inFlight = {Len(calls[c].served) + 1}

\* Two pages of a three-page fetch are answered and the third is requested.
C28_Witness ==
  \E c \in 1..Len(calls) :
    /\ calls[c].phase = "fetching"
    /\ calls[c].key \in Paginated
    /\ calls[c].totalPages = 3
    /\ Len(calls[c].served) = 2
    /\ calls[c].inFlight = {3}

\* C29: a cache entry is written only after the whole fetch succeeded.  A
\* step in which a fetch rejects leaves both stores as they were, under
\* forceRefresh too and on a later page too; a step that answers a page
\* with pages left writes nothing; a fetch resolves only when every one of
\* its pages was answered, with their concatenation; and a store changes
\* only in the step that resolves a fetch, the entry written being that
\* data.
C29_StoresUnchanged == localStorage' = localStorage /\ memoryStore' = memoryStore

C29_Written(store, key) ==
  /\ store[key].present
  /\ store[key].data = lastCall'.data

C29_WrittenAfterSuccess ==
  [][\A c \in 1..Len(calls) :
       (calls[c].phase = "fetching" /\ calls'[c] # calls[c])
         => /\ (calls'[c].phase = "fetching") => C29_StoresUnchanged
            /\ (calls'[c].phase = "settled" /\ lastCall'.outcome = "rejected")
                 => C29_StoresUnchanged
            /\ (calls'[c].phase = "settled" /\ lastCall'.outcome = "resolved")
                 => /\ lastCall'.totalPages >= 1
                         => Len(lastCall'.served) = lastCall'.totalPages
                    /\ C11_IsConcat(lastCall'.data, lastCall'.served)
            /\ ~C29_StoresUnchanged
                 => /\ lastCall'.outcome = "resolved"
                    /\ \/ C29_Written(localStorage', calls[c].key)
                       \/ C29_Written(memoryStore', calls[c].key)]_vars

\* A second fetch of the dataset has rejected while the store holds the
\* entry of an earlier fetch of several pages.
C29_Witness ==
  /\ \A c \in 1..Len(calls) : calls[c].phase = "settled"
  /\ Len(calls) = 2
  /\ lastCall.outcome = "rejected"
  /\ \E k \in Paginated :
       /\ lastCall.key = k
       /\ localStorage[k].present
       /\ Len(localStorage[k].data) > MaxPageLen

\* C30: the content and the order of the built index do not depend on the
\* order in which the four fetches settled: whatever that order, the index
\* a build installs is the entries of items, then those of arcs, then those
\* of quests, then those of traders, each in the order of its dataset (none
\* for a dataset whose fetch rejected).
C30_Offset(fetched, i) ==
  LET off[j \in 1..(Len(BuildDatasets) + 1)] ==
        IF j = 1 THEN 0 ELSE off[j - 1] + C7_Size(fetched[BuildDatasets[j - 1]])
  IN  off[i]

C30_InDatasetOrder(index, fetched) ==
  /\ Len(index) = C30_Offset(fetched, Len(BuildDatasets) + 1)
  /\ \A i \in 1..Len(BuildDatasets) :
       \A k \in 1..C7_Size(fetched[BuildDatasets[i]]) :
         LET entry == index[C30_Offset(fetched, i) + k]
         IN  /\ entry.type = C7_Type(BuildDatasets[i])
             /\ entry.name = C7_Name(BuildDatasets[i], fetched[BuildDatasets[i]].value[k])

C30_OrderIndependent ==
  \A b \in 1..Len(builds) :
    (b = Len(builds) /\ builds[b].status = "resolved")
      => C30_InDatasetOrder(_index, builds[b].fetched)

\* A build resolved whose four fetches all fulfilled, traders first and items
\* last.
C30_Witness ==
  \E b \in 1..Len(builds) :
    /\ b = Len(builds)
    /\ builds[b].status = "resolved"
    /\ builds[b].order = <<"traders", "quests", "arcs", "items">>
    /\ \A d \in DatasetSet : builds[b].fetched[d].status = "fulfilled"
    /\ Len(_index) = 5

\* C33: data that writeStore redirected to the in-process fallback map
\* because the persistent store's quota was exceeded is readable again: a
\* later fetch of that dataset without forceRefresh, inside the ttl, is
\* served from the cache and issues no network request.
C33_Redirected(key) ==
  /\ useLocalStorage
  /\ memoryStore[key].present
  /\ ~isStale(now - memoryStore[key].cachedAt, memoryStore[key].ttl)

C33_FallbackReadable ==
  [][\A key \in DatasetKeys :
       (C33_Redirected(key) /\ FetchDataset(key, FALSE)) =>
         /\ calls' = Append(calls, Settled)
         /\ lastCall'.outcome = "resolved"
         /\ lastCall'.fromCache]_vars

\* An unforced fetch was made while the fallback map held a fresh entry
\* that a quota failure had redirected there.
C33_Witness ==
  \E key \in DatasetKeys :
    /\ C33_Redirected(key)
    /\ Len(calls) = 2
    /\ calls[1].phase = "settled"
    /\ lastCall.key = key
    /\ ~localStorage[key].present

\* C31: a dataset fetch with forceRefresh = true always issues a network
\* request, even over a fresh entry; when it succeeds the entry the cache
\* reads back is the new data, with cachedAt = now and the dataset's ttl, so
\* that a later unforced call inside the ttl gets the new data from the
\* cache.
C31_ReadBack(key) == IF useLocalStorage' THEN localStorage'[key] ELSE memoryStore'[key]

C31_ForcedOverwrites ==
  [][/\ \A key \in DatasetKeys :
          FetchDataset(key, TRUE)
            => /\ Len(calls') = Len(calls) + 1
               /\ calls'[Len(calls')].phase = "fetching"
     /\ \A c \in 1..Len(calls) :
          ( /\ calls[c].phase = "fetching"
            /\ calls[c].forceRefresh
            /\ calls'[c].phase = "settled"
            /\ lastCall'.outcome = "resolved" )
            => /\ C31_ReadBack(calls[c].key).present
               /\ C31_ReadBack(calls[c].key).data = lastCall'.data
               /\ C31_ReadBack(calls[c].key).cachedAt = now
               /\ C31_ReadBack(calls[c].key).ttl = TTL(calls[c].key)]_vars

\* A forced fetch is under way over an entry that is still fresh.
C31_Witness ==
  \E c \in 1..Len(calls) :
    /\ calls[c].phase = "fetching"
    /\ calls[c].forceRefresh
    /\ getCache(calls[c].key).hit

\* C32: the ARDB items list is served from cache for 30 minutes only: a
\* fetchArdbItems call without forceRefresh, made when the list held was
\* fetched LIST_CACHE_TTL or more ago and no request is under way, issues a
\* new GET, whether the list is held in memory (same session) or only in
\* localStorage (after a reload).
C32_ListExpired ==
  /\ ardbStorage.present
  /\ now - ardbStorage.at >= LIST_CACHE_TTL
  /\ \A p \in 1..Len(ardbPromises) : ardbPromises[p].status # "pending"
  /\ _listCache.null \/ _listCache = ardbStorage.data

C32_RefetchedAfterTtl ==
  [][(C32_ListExpired /\ FetchArdbItems(FALSE)) => ardbGets' = ardbGets + 1]_vars

\* A call without forceRefresh was made when the list was thirty minutes
\* old.
C32_Witness ==
  /\ C32_ListExpired
  /\ Len(ardbCalls) >= 2
  /\ ~ardbCalls[Len(ardbCalls)].forceRefresh
  /\ ardbCalls[Len(ardbCalls)].handed = "list"

\* C34: getIndexState reports an error only in the state 'error': whenever
\* the state is idle, loading or ready the stored error is null, also when
\* builds overlap through forceRefresh or clearIndex.
C34_ErrorOnlyInErrorState ==
  getIndexState.state \in {"idle", "loading", "ready"} => getIndexState.error = Null

\* A second build was started while the first was in flight, and both have
\* settled.
C34_Witness ==
  /\ Len(builds) = 2
  /\ builds[1].forceRefresh = FALSE
  /\ builds[2].forceRefresh
  /\ \A b \in 1..2 : builds[b].status # "pending"
  /\ \E b \in 1..2 : builds[b].status = "rejected"
  /\ _state = "ready"

\* C35: after clearIndex() the index stays empty and the state stays 'idle'
\* until the next buildIndex call that starts a build, also when a build was
\* in flight at the clear: from an idle state every step that is not such a
\* call leaves the state idle and the index empty.
C35_StaysCleared ==
  [][(_state = "idle" /\ Len(builds') = Len(builds))
       => (_state' = "idle" /\ _index' = <<>>)]_vars

\* clearIndex() was called while a build was in flight.
C35_Witness ==
  /\ _state = "idle"
  /\ _index = <<>>
  /\ PendingBuilds # {}

\* C36: buildIndex({forceRefresh: true}) was called while an earlier build
\* was in flight.  Once both have settled, index, state and error are those
\* of the forced build, whichever finished last: when the earlier build
\* settles after the forced one, it changes none of the three.
C36_EarlierSettlesLast ==
  /\ Len(builds) = 2
  /\ builds[2].forceRefresh
  /\ builds[1].status = "pending"
  /\ builds[2].status # "pending"
  /\ builds'[1].status # "pending"

C36_ForcedBuildWins ==
  [][C36_EarlierSettlesLast
       => (_index' = _index /\ _state' = _state /\ _error' = _error)]_vars

\* A forced build was started over a build in flight and both have
\* resolved.
C36_Witness ==
  /\ Len(builds) = 2
  /\ builds[2].forceRefresh
  /\ builds[1].status = "resolved"
  /\ builds[2].status = "resolved"
  /\ _state = "ready"
  /\ Len(_index) > 0

\* C37: for every item of the fetched list, the link the pages write for it
\* (the slug of its normalized base name) is routed to renderItemGroup and
\* gives there the group of the items with that base slug, which is not
\* empty and contains the item; the lookup by item id is not what answers.
C37_BaseGroup(items, slug) == SelectSeq(items, LAMBDA item : groupKey(item) = slug)

C37_LinkResolves ==
  (applied.fn = "itemLinks" /\ applied.step = "routed")
    => /\ applied.matched
       /\ applied.group # <<>>
       /\ \E k \in 1..Len(applied.group) : applied.group[k] = applied.items[applied.i]
       /\ applied.group = C37_BaseGroup(applied.items, groupKey(applied.items[applied.i]))

\* The link of an item with tiers was followed to a group of several items.
C37_Witness ==
  /\ applied.fn = "itemLinks"
  /\ applied.step = "routed"
  /\ applied.matched
  /\ Len(applied.group) >= 2

\* The number of page requests of a fetch whose first envelope declared d:
\* the loop runs from page 2 to d, after the request for page 1.
C38_Requests(d) == IF d = NoTotalPages \/ d < 1 THEN 1 ELSE d

\* C38 as stated: a resolved paginated fetch has issued exactly as many
\* requests as the totalPages value of its first envelope, one when the
\* value is absent.  An envelope declaring totalPages 0 refutes it: the
\* request for page 1 has been made before the value is read.
C38_RequestsEqualDeclared ==
  (lastCall.outcome = "resolved" /\ ~lastCall.fromCache /\ lastCall.key \in Paginated)
    => Len(lastCall.served) = (IF lastCall.declared = NoTotalPages THEN 1
                               ELSE lastCall.declared)

\* C38 amended: a paginated fetch never issues more requests than the
\* totalPages value of its first envelope, and at least one; a call still
\* fetching has fewer responses than that number, so every settled request
\* brings it one step nearer to its end, and a resolved call has issued
\* exactly that number, whatever the later pages declared.
C38_RequestsBounded ==
  /\ \A c \in 1..Len(calls) :
        (calls[c].phase = "fetching" /\ calls[c].key \in Paginated)
          => /\ calls[c].page = Len(calls[c].served) + 1
             /\ calls[c].page > 1 => calls[c].page <= C38_Requests(calls[c].declared)
  /\ (lastCall.outcome = "resolved" /\ ~lastCall.fromCache /\ lastCall.key \in Paginated)
       => Len(lastCall.served) = C38_Requests(lastCall.declared)

\* A fetch resolved after three requests, as its first page declared.
C38_Witness ==
  /\ lastCall.outcome = "resolved"
  /\ ~lastCall.fromCache
  /\ lastCall.key \in Paginated
  /\ lastCall.declared = 3
  /\ Len(lastCall.served) = 3

\* A fetch resolved after one request whose envelope declared no pages.
C38_WitnessZero ==
  /\ lastCall.outcome = "resolved"
  /\ ~lastCall.fromCache
  /\ lastCall.key \in Paginated
  /\ lastCall.declared = 0
  /\ Len(lastCall.served) = 1

\* The datasets whose fetchers resolve with a list.
C39_ListKeys == Paginated \cup {"eventsSchedule"}

\* The step that ends fetch c with 2xx responses none of which had a data
\* field.
C39_EndsWithoutData(c) ==
  /\ calls[c].phase = "fetching"
  /\ calls[c].key \in C39_ListKeys
  /\ calls'[c].phase = "settled"
  /\ lastCall'.key = calls[c].key
  /\ lastCall'.outcome = "resolved"
  /\ ~lastCall'.fromCache
  /\ \A p \in 1..Len(lastCall'.served) : ~lastCall'.served[p].hasData

\* C39: a 2xx JSON response without a data field is no failure for the list
\* fetchers: the fetch resolves with the empty list, the empty list is
\* written to the cache with the ttl of the dataset, and the cache answers
\* with it, so that a call without forceRefresh made inside the ttl returns
\* the empty list and issues no request.
C39_EmptyListCached ==
  [][/\ \A c \in 1..Len(calls) :
          ( /\ calls[c].phase = "fetching"
            /\ calls[c].key \in C39_ListKeys
            /\ calls'[c].phase = "settled"
            /\ \E hasData \in {FALSE}, declared \in NoTotalPages..MaxPages,
                  setItem \in SetItemOutcomes :
                  ResponseOk(c, hasData, declared, setItem)
            /\ \A p \in 1..Len(calls[c].served) : ~calls[c].served[p].hasData )
            => lastCall'.outcome = "resolved"
     /\ \A c \in 1..Len(calls), key \in C39_ListKeys :
          (C39_EndsWithoutData(c) /\ calls[c].key = key)
            => /\ lastCall'.data = <<>>
               /\ getCache(key)'.hit
               /\ getCache(key)'.data = <<>>
               /\ C31_ReadBack(key).ttl = TTL(key)
     /\ \A key \in C39_ListKeys :
          ( /\ FetchDataset(key, FALSE)
            /\ getCache(key).hit
            /\ getCache(key).data = <<>> )
            => /\ calls'[Len(calls')] = Settled
               /\ lastCall'.outcome = "resolved"
               /\ lastCall'.fromCache
               /\ lastCall'.data = <<>>]_vars

\* A fetch has resolved with the empty list after a response without a data
\* field, with localStorage in use.
C39_Witness ==
  /\ useLocalStorage
  /\ lastCall.outcome = "resolved"
  /\ ~lastCall.fromCache
  /\ lastCall.key \in C39_ListKeys
  /\ lastCall.data = <<>>
  /\ \A p \in 1..Len(lastCall.served) : ~lastCall.served[p].hasData

====
